---- MODULE Spec2Model ----
(***************************************************************************)
(* PyTorrent.  The tracker (src/src/tracker.py): the membership table      *)
(* active_peers, the file -> seeders index file_repository, the UDP        *)
(* request handlers and the inactivity sweeper.  The peer                  *)
(* (src/src/client.py): the chunk store file_chunks over the shared        *)
(* directory and the peer server that answers REQUEST_CHUNK from it.       *)
(*                                                                         *)
(* Every tracker handler runs its whole body under Tracker.lock, so a      *)
(* handler is one atomic action.  A Python dict keeps insertion order, so  *)
(* active_peers is a sequence of records keyed by addr.  A handler is an   *)
(* operator from the tracker state and the datagram to the new state and   *)
(* the response it sends; the response changes no tracker state, and the   *)
(* properties read it from the handler.                                    *)
(*                                                                         *)
(* Spec is the tracker; StoreSpec is one peer's chunk store and peer       *)
(* server; DownloadSpec is one download_file call of a client, with the    *)
(* peer servers of the seeders; SessionSpec is a client over several       *)
(* download_file calls with its background threads; ThreadSpec is the      *)
(* tracker with its handlers taken one statement group at a time, under    *)
(* Tracker.lock; AliveSpec is a client's keep_alive, main and file-check   *)
(* threads exchanging datagrams with the tracker over the one udp_socket,  *)
(* some under Client.lock.  Each leaves the variables of the others as its *)
(* initial state sets them.                                                *)
(***************************************************************************)
EXTENDS Integers, Sequences, FiniteSets, TLC

VARIABLES
    active_peers,     \* Tracker.active_peers: insertion-ordered dict addr -> record
    file_repository,  \* Tracker.file_repository: filename -> list of entries
    now,              \* the value time.time() returns
    sweeper_running,  \* the cleanup thread (remove_inactive_peers) is alive
    disk,             \* the shared directory: filename -> the bytes of the file
    chunk_size,       \* the chunk_size argument of generate_file_metadata
    file_chunks,      \* Client.file_chunks: filename -> metadata
    served,           \* the last request to the peer server and what it sent back
    peer_server,      \* host -> how the peer server on that host behaves
    own_chunks,       \* file_chunks of the downloading client
    pc,               \* where download_file is
    outcome,          \* how download_file ended
    seeders,          \* download_file: the filtered seeders list
    seeder_availability,  \* Client.seeder_availability
    seeder_metadata,  \* download_file: the metadata obtained from a seeder
    chunk_queue,      \* download_file: chunk_queue
    downloaded_chunks,  \* download_file: chunk id -> the path of its part file
    temp_dir,         \* the part files in output_dir/.tmp: path -> bytes
    worker,           \* seeder -> where its download_chunk_worker is
    output_file,      \* the file output_dir/filename
    contacted,        \* the hosts a TCP connection was made to, and for what
    tracker_lock,  \* Tracker.lock: the thread that holds it
    threads,  \* the request threads and the cleanup thread: where each one is
    serial,  \* the tables after the critical sections entered so far, run one at a time
    lock,  \* Client.lock of the downloading client: who holds it
    calls,  \* the download_file calls: new, waiting before "with self.lock", running, done
    downloading_files,  \* Client.downloading_files
    sharing_files,  \* Client.sharing_files
    own_disk,  \* the file_dir of the downloading client: filename -> bytes
    sidecar,  \* the metadata file save_metadata writes
    sent,  \* the UPDATE_FILES payloads the downloading client sent to the tracker
    tasks,  \* the threads of the client that talk to the tracker: where each one is
    udp_socket,  \* Client.udp_socket: the datagrams received and not yet read
    process  \* the client process: running or exited

tracker_vars == <<active_peers, file_repository, now, sweeper_running>>

store_vars == <<disk, chunk_size, file_chunks, served>>

download_vars == <<peer_server, own_chunks, pc, outcome, seeders,
                   seeder_availability, seeder_metadata, chunk_queue,
                   downloaded_chunks, temp_dir, worker, output_file, contacted>>

thread_vars == <<tracker_lock, threads, serial>>

session_vars == <<lock, calls, downloading_files, sharing_files, own_disk, sidecar, sent>>

alive_vars == <<tasks, udp_socket, process>>

vars == <<active_peers, file_repository, now, sweeper_running,
          disk, chunk_size, file_chunks, served,
          peer_server, own_chunks, pc, outcome, seeders,
          seeder_availability, seeder_metadata, chunk_queue,
          downloaded_chunks, temp_dir, worker, output_file, contacted,
          tracker_lock, threads, serial,
          lock, calls, downloading_files, sharing_files, own_disk, sidecar, sent,
          tasks, udp_socket, process>>

-----------------------------------------------------------------------------
(* Bounds of the model *)

\* the clock stops advancing at MaxTime
MaxTime == 2

(* Constructor parameters of Tracker (tracker.py:24).  The model instantiates
   Tracker(host, port, peer_timeout = 1, peer_limit = 2). *)
peer_timeout == 1
peer_limit == 2

-----------------------------------------------------------------------------
(* Values *)

Peers == {"p1", "p2", "p3"}
Filenames == {"f1", "f2"}

\* a key that a JSON object does not have: .get() gives None, [] raises KeyError
NoKey == "None"

\* the elements of a "files" list: JSON objects, or something that is not an object
FileObj(fn, sz, ck) == [kind |-> "object", filename |-> fn, size |-> sz, checksum |-> ck]
F1a == FileObj("f1", 1, NoKey)
F1b == FileObj("f1", 2, "c2")
F2a == FileObj("f2", 1, NoKey)
F1c == FileObj("f1", 1, "c1")
F2c == FileObj("f2", 1, "c1")
NoName == FileObj(NoKey, 1, NoKey)
Scalar == [kind |-> "scalar", filename |-> NoKey, size |-> 0, checksum |-> NoKey]

\* the JSON text after the third token of a request
NoJson == [kind |-> "absent", has_files |-> FALSE, files |-> <<>>]
BadJson == [kind |-> "invalid", has_files |-> FALSE, files |-> <<>>]
JsonNoFiles == [kind |-> "object", has_files |-> FALSE, files |-> <<>>]
JsonFiles(fl) == [kind |-> "object", has_files |-> TRUE, files |-> fl]

\* a datagram: sender address, whitespace-separated tokens, trailing JSON text
Datagram(p, toks, js) == [from |-> p, tokens |-> toks, json |-> js]

EmptyBody == [seeders |-> <<>>, leechers |-> <<>>, size |-> 0, checksum |-> NoKey, files |-> {}]
Reply(st) == [status |-> st, body |-> EmptyBody]
\* no datagram is sent (the handler raised, or the step is not a request)
NoReply == Reply("none")

-----------------------------------------------------------------------------
(* Python dict operations on active_peers *)

Keys(ap) == {ap[i].addr : i \in DOMAIN ap}

Get(ap, a) == ap[CHOOSE i \in DOMAIN ap : ap[i].addr = a]

\* d[k] = v : replaces in place, or appends a new key
DictSet(ap, rec) ==
    IF rec.addr \in Keys(ap)
    THEN [i \in DOMAIN ap |-> IF ap[i].addr = rec.addr THEN rec ELSE ap[i]]
    ELSE Append(ap, rec)

\* del d[k]
DictDel(ap, a) == SelectSeq(ap, LAMBDA r : r.addr # a)

\* the addresses that occur in the list file_repository[fn]
EntryPeers(fr, fn) == {fr[fn][i].peer_address : i \in DOMAIN fr[fn]}

\* a dict without key k
Without(f, k) == [x \in (DOMAIN f) \ {k} |-> f[x]]

\* a dict with f[k] = v
With(f, k, v) == [x \in (DOMAIN f) \cup {k} |-> IF x = k THEN v ELSE f[x]]

-----------------------------------------------------------------------------
(* Tracker.register_peer, tracker.py:191-230 *)

\* one repository entry (tracker.py:219-223)
Entry(p, file_info) ==
    [peer_address |-> p, size |-> file_info.size, checksum |-> file_info.checksum]

(* The loop "for file_info in files" (tracker.py:212-224), from index i on.
   st is response_message so far.  file_info.get raises AttributeError on an
   element that is not an object: the loop stops there and nothing later runs. *)
RECURSIVE AddFiles(_, _, _, _, _)
AddFiles(fr, files, i, p, st) ==
    IF i > Len(files) THEN [fr |-> fr, status |-> st, raised |-> FALSE]
    ELSE LET file_info == files[i] IN
         IF file_info.kind # "object" THEN [fr |-> fr, status |-> st, raised |-> TRUE]
         ELSE IF file_info.filename # NoKey
              THEN LET fn == file_info.filename
                       old == IF fn \in DOMAIN fr THEN fr[fn] ELSE <<>>
                   IN AddFiles(With(fr, fn, Append(old, Entry(p, file_info))),
                               files, i + 1, p, "201")
              ELSE AddFiles(fr, files, i + 1, p, st)

\* the record stored at tracker.py:204-209
PeerRecord(p, peer_type, files, username, t) ==
    [addr |-> p, username |-> username, last_activity |-> t, type |-> peer_type,
     files |-> IF peer_type = "seeder" THEN files ELSE <<>>]

\* an admission test that is off by one
HasRoom_OffByOne(ap) == Len(ap) <= peer_limit

\* the admission test at tracker.py:203
HasRoom(ap) == Len(ap) < peer_limit

\* the branch of register_peer that admits the peer, tracker.py:204-227
Admit(ap, fr, p, peer_type, files, username, t) ==
    LET ap1 == DictSet(ap, PeerRecord(p, peer_type, files, username, t)) IN
    IF peer_type = "seeder" /\ files # <<>>
    THEN LET r == AddFiles(fr, files, 1, p, "500") IN
         [ap |-> ap1, fr |-> r.fr,
          response |-> IF r.raised THEN NoReply ELSE Reply(r.status)]
    ELSE [ap |-> ap1, fr |-> fr, response |-> Reply("201")]

\* a register_peer that lets a registered address register again when the table is full
register_peer_Reregistering(ap, fr, p, peer_type, files, username, t) ==
    IF HasRoom(ap) \/ p \in Keys(ap)
    THEN Admit(ap, fr, p, peer_type, files, username, t)
    ELSE [ap |-> ap, fr |-> fr, response |-> Reply("403")]

register_peer(ap, fr, p, peer_type, files, username, t) ==
    IF HasRoom(ap)
    THEN Admit(ap, fr, p, peer_type, files, username, t)
    ELSE [ap |-> ap, fr |-> fr, response |-> Reply("403")]

(* Tracker.handle_register_requests, tracker.py:148-189.  The request has
   Len(m.tokens) tokens, plus the tokens of the JSON text when there is one. *)
ReqLen(m) == Len(m.tokens) + (IF m.json.kind = "absent" THEN 0 ELSE 1)

Unchanged(ap, fr, st) == [ap |-> ap, fr |-> fr, response |-> Reply(st)]

handle_register_requests(ap, fr, m, t) ==
    IF ReqLen(m) < 3 THEN Unchanged(ap, fr, "400")
    ELSE LET peer_type == m.tokens[2]
             username == m.tokens[3]
         IN IF peer_type \notin {"seeder", "leecher"} THEN Unchanged(ap, fr, "400")
            ELSE IF peer_type = "seeder"
                 THEN IF ReqLen(m) < 4 THEN Unchanged(ap, fr, "400")
                      ELSE IF m.json.kind = "invalid" THEN Unchanged(ap, fr, "400")
                      ELSE IF ~m.json.has_files THEN Unchanged(ap, fr, "400")
                      ELSE register_peer(ap, fr, m.from, peer_type, m.json.files, username, t)
                 ELSE register_peer(ap, fr, m.from, peer_type, <<>>, username, t)

-----------------------------------------------------------------------------
(* Removal of a peer's repository entries: the loop at tracker.py:330-340,
   repeated at tracker.py:365-375.  file_info['filename'] raises KeyError on
   an object without that key and TypeError on an element that is not an
   object; the entries removed before that stay removed. *)

\* a removal that leaves the entries where they are
DropEntries_Keep(fr, fn, p) == fr

\* tracker.py:334-340: drop the peer's entries under fn, and fn itself when none is left
DropEntries(fr, fn, p) ==
    LET kept == SelectSeq(fr[fn], LAMBDA entry : entry.peer_address # p)
    IN IF kept = <<>> THEN Without(fr, fn) ELSE With(fr, fn, kept)

RECURSIVE RemoveFiles(_, _, _, _)
RemoveFiles(fr, files, i, p) ==
    IF i > Len(files) THEN [fr |-> fr, raised |-> FALSE]
    ELSE LET file_info == files[i] IN
         IF file_info.kind # "object" \/ file_info.filename = NoKey
         THEN [fr |-> fr, raised |-> TRUE]
         ELSE LET fn == file_info.filename IN
              RemoveFiles(IF fn \in DOMAIN fr THEN DropEntries(fr, fn, p) ELSE fr,
                          files, i + 1, p)

(* Tracker.remove_peer, tracker.py:320-350.  When the loop raises, the thread
   ends inside the with block: the record stays and no response is sent. *)
remove_peer(ap, fr, p) ==
    IF p \in Keys(ap)
    THEN LET peer_info == Get(ap, p) IN
         IF peer_info.type = "seeder"
         THEN LET r == RemoveFiles(fr, peer_info.files, 1, p) IN
              IF r.raised
              THEN [ap |-> ap, fr |-> r.fr, response |-> NoReply]
              ELSE [ap |-> DictDel(ap, p), fr |-> r.fr, response |-> Reply("200")]
         ELSE [ap |-> DictDel(ap, p), fr |-> fr, response |-> Reply("200")]
    ELSE Unchanged(ap, fr, "403")

\* a keep-alive that records an address it does not know
keep_peer_alive_Creating(ap, fr, p, t) ==
    [ap |-> DictSet(ap, IF p \in Keys(ap)
                        THEN [Get(ap, p) EXCEPT !.last_activity = t]
                        ELSE PeerRecord(p, "leecher", <<>>, "unknown", t)),
     fr |-> fr, response |-> Reply("200")]

(* Tracker.keep_peer_alive, tracker.py:385-405 *)
keep_peer_alive(ap, fr, p, t) ==
    IF p \in Keys(ap)
    THEN [ap |-> DictSet(ap, [Get(ap, p) EXCEPT !.last_activity = t]),
          fr |-> fr, response |-> Reply("200")]
    ELSE Unchanged(ap, fr, "403")

(* Tracker.list_active_peers, tracker.py:273-300: the two lists of the JSON body *)
ActiveOfType(ap, ty) ==
    LET sel == SelectSeq(ap, LAMBDA info : info.type = ty)
    IN [i \in DOMAIN sel |-> [peer |-> sel[i].addr, username |-> sel[i].username]]

list_active_peers(ap, fr) ==
    [ap |-> ap, fr |-> fr,
     response |-> [status |-> "json",
                   body |-> [EmptyBody EXCEPT !.seeders = ActiveOfType(ap, "seeder"),
                                              !.leechers = ActiveOfType(ap, "leecher")]]]

(* Tracker.list_available_files, tracker.py:302-318 *)
list_available_files(ap, fr) ==
    [ap |-> ap, fr |-> fr,
     response |-> [status |-> "json",
                   body |-> [EmptyBody EXCEPT !.files =
                       {<<fn, fr[fn][1].size>> : fn \in {f \in DOMAIN fr : fr[f] # <<>>}}]]]

(* Tracker.handle_get_peers_request and get_peers_for_file, tracker.py:232-271 *)
\* a get_peers_for_file that reports the size and checksum of the newest entry
get_peers_for_file_LastEntry(ap, fr, filename) ==
    IF filename \in DOMAIN fr
    THEN LET entries == fr[filename] IN
         [ap |-> ap, fr |-> fr,
          response |-> [status |-> "200",
                        body |-> [EmptyBody EXCEPT
                            !.size = entries[Len(entries)].size,
                            !.checksum = entries[Len(entries)].checksum,
                            !.seeders = [i \in DOMAIN entries |-> entries[i].peer_address]]]]
    ELSE Unchanged(ap, fr, "404")

get_peers_for_file(ap, fr, filename) ==
    IF filename \in DOMAIN fr
    THEN LET entries == fr[filename] IN
         [ap |-> ap, fr |-> fr,
          response |-> [status |-> "200",
                        body |-> [EmptyBody EXCEPT
                            !.size = entries[1].size,
                            !.checksum = entries[1].checksum,
                            !.seeders = [i \in DOMAIN entries |-> entries[i].peer_address]]]]
    ELSE Unchanged(ap, fr, "404")

handle_get_peers_request(ap, fr, m) ==
    IF ReqLen(m) < 2 THEN Unchanged(ap, fr, "400")
    ELSE get_peers_for_file(ap, fr, m.tokens[2])

(* Tracker.handle_ping_request, tracker.py:407-414 *)
handle_ping_request(ap, fr) == Unchanged(ap, fr, "200")

\* an UPDATE_FILES handler that adds the payload's entries to those already there
unknown_request_Appending(ap, fr, m) ==
    IF m.tokens[1] = "UPDATE_FILES" /\ m.from \in Keys(ap)
    THEN [ap |-> ap, fr |-> AddFiles(fr, m.json.files, 1, m.from, "200").fr,
          response |-> Reply("200")]
    ELSE Unchanged(ap, fr, "400")

\* the else branch of process_peer_requests, tracker.py:144-146
unknown_request(ap, fr, m) == Unchanged(ap, fr, "400")

(* Tracker.process_peer_requests, tracker.py:108-146 *)
process_peer_requests(ap, fr, m, t) ==
    IF ReqLen(m) = 0 THEN Unchanged(ap, fr, "400")
    ELSE LET request_type == m.tokens[1] IN
         CASE request_type = "REGISTER" -> handle_register_requests(ap, fr, m, t)
           [] request_type = "LIST_ACTIVE" -> list_active_peers(ap, fr)
           [] request_type = "LIST_FILES" -> list_available_files(ap, fr)
           [] request_type = "DISCONNECT" -> remove_peer(ap, fr, m.from)
           [] request_type = "KEEP_ALIVE" -> keep_peer_alive(ap, fr, m.from, t)
           [] request_type = "PING" -> handle_ping_request(ap, fr)
           [] request_type = "GET_PEERS" -> handle_get_peers_request(ap, fr, m)
           [] OTHER -> unknown_request(ap, fr, m)

-----------------------------------------------------------------------------
(* Tracker.remove_inactive_peers, tracker.py:352-383: one pass of the loop
   body under the lock, over list(active_peers.keys()) from index i on.  An
   exception leaves the with block and the while loop: the thread ends. *)
Expired(info, t) == t - info.last_activity > peer_timeout

RECURSIVE SweepFrom(_, _, _, _, _)
SweepFrom(ap, fr, keys, i, t) ==
    IF i > Len(keys) THEN [ap |-> ap, fr |-> fr, raised |-> FALSE]
    ELSE LET peer == keys[i]
             info == Get(ap, peer)
         IN IF Expired(info, t)
            THEN IF info.type = "seeder"
                 THEN LET r == RemoveFiles(fr, info.files, 1, peer) IN
                      IF r.raised THEN [ap |-> ap, fr |-> r.fr, raised |-> TRUE]
                      ELSE SweepFrom(DictDel(ap, peer), r.fr, keys, i + 1, t)
                 ELSE SweepFrom(DictDel(ap, peer), fr, keys, i + 1, t)
            ELSE SweepFrom(ap, fr, keys, i + 1, t)

KeyList(ap) == [i \in DOMAIN ap |-> ap[i].addr]

remove_inactive_peers(ap, fr, t) == SweepFrom(ap, fr, KeyList(ap), 1, t)

-----------------------------------------------------------------------------
(* The datagrams the tracker receives *)

(* REGISTER: every address registers as a leecher; p1 and p2 also register as
   seeders, with files lists that overlap on f1 (under different sizes), that
   shrink from {f1, f2} to {f1}, and that hold an object without 'filename'
   or an element that is no object.  The other five are rejected by
   handle_register_requests. *)
SeederLists(p) ==
    CASE p = "p1" -> {<<F1a, F2a>>, <<F1a>>, <<NoName, F1a>>, <<F1a, NoName>>}
      [] p = "p2" -> {<<F1b>>, <<>>, <<Scalar>>}
      [] OTHER -> {}

RegisterDatagrams ==
    {Datagram(p, <<"REGISTER", "leecher", "u1">>, NoJson) : p \in Peers}
    \cup UNION {{Datagram(p, <<"REGISTER", "seeder", "u1">>, JsonFiles(fl)) :
                     fl \in SeederLists(p)} : p \in Peers}
    \cup {Datagram("p3", <<"REGISTER", "seeder">>, NoJson),
          Datagram("p3", <<"REGISTER", "admin", "u1">>, NoJson),
          Datagram("p3", <<"REGISTER", "seeder", "u1">>, NoJson),
          Datagram("p3", <<"REGISTER", "seeder", "u1">>, BadJson),
          Datagram("p3", <<"REGISTER", "seeder", "u1">>, JsonNoFiles)}

\* UPDATE_FILES as Client.update_tracker_files sends it (client.py:473-486)
UpdateFilesDatagrams ==
    {Datagram("p1", <<"UPDATE_FILES", "u1">>, JsonFiles(fl)) :
         fl \in {<<F1c>>, <<F1c, F2c>>}}

GetPeersDatagrams ==
    {Datagram("p3", <<"GET_PEERS", fn>>, NoJson) : fn \in Filenames}
    \cup {Datagram("p3", <<"GET_PEERS">>, NoJson)}

DisconnectDatagram(p) == Datagram(p, <<"DISCONNECT", "u1">>, NoJson)

KeepAliveDatagram(p) == Datagram(p, <<"KEEP_ALIVE", "u1">>, NoJson)

ListActiveDatagrams == {Datagram("p3", <<"LIST_ACTIVE", "u1">>, NoJson)}

ListFilesDatagrams == {Datagram("p3", <<"LIST_FILES">>, NoJson)}

PingDatagrams == {Datagram("p3", <<"PING">>, NoJson)}

\* CHANGE_USERNAME as Client.change_username sends it (client.py:1170-1212)
ChangeUsernameDatagrams ==
    {Datagram("p1", <<"CHANGE_USERNAME", "u1", "u2", "p1">>, NoJson)}

BadDatagrams == {Datagram("p3", <<>>, NoJson), Datagram("p3", <<"HELLO">>, NoJson)}

-----------------------------------------------------------------------------
(* The chunk store of a peer, client.py:677-742, and its peer server,
   client.py:143-191 and 518-562 *)

\* the longest file of the shared directory
MaxLen == 3

\* the largest chunk_size given to generate_file_metadata
MaxChunk == 2

Bytes == {0, 1}

\* the byte strings of at most n bytes
BytesUpTo(n) == UNION {[1..k -> Bytes] : k \in 0..n}

Contents == BytesUpTo(MaxLen)

\* hashlib.sha256(data).hexdigest(): equal digests for equal data only
Digest(data) == [sha256 |-> data]

Min(a, b) == IF a < b THEN a ELSE b

\* file.seek(pos); file.read(n)
ReadAt(data, pos, n) == SubSeq(data, pos + 1, Min(pos + n, Len(data)))

\* a chunk loop that tests for the end of the file only after appending a chunk
RECURSIVE ChunkTable_DoWhile(_, _, _, _)
ChunkTable_DoWhile(data, c, pos, chunk_id) ==
    LET chunk == ReadAt(data, pos, c) IN
    <<[id |-> chunk_id, size |-> Len(chunk), checksum |-> Digest(chunk)]>>
    \o (IF pos + c >= Len(data) THEN <<>>
        ELSE ChunkTable_DoWhile(data, c, pos + c, chunk_id + 1))

(* The loop "while chunk" of generate_file_metadata, client.py:699-714, with
   the file position at pos and chunk_id chunks appended so far. *)
RECURSIVE ChunkTable(_, _, _, _)
ChunkTable(data, c, pos, chunk_id) ==
    LET chunk == ReadAt(data, pos, c) IN
    IF chunk = <<>> THEN <<>>
    ELSE <<[id |-> chunk_id, size |-> Len(chunk), checksum |-> Digest(chunk)]>>
         \o ChunkTable(data, c, pos + Len(chunk), chunk_id + 1)

\* a generate_file_metadata that takes the size from the full chunks only
generate_file_metadata_FullChunks(data, c) ==
    [size |-> (Len(data) \div c) * c,
     checksum |-> Digest(data),
     chunks |-> ChunkTable(data, c, 0, 0)]

(* Client.generate_file_metadata, client.py:677-716.  The streaming SHA-256
   over the successive reads is the digest of the whole content. *)
generate_file_metadata(data, c) ==
    [size |-> Len(data),
     checksum |-> Digest(data),
     chunks |-> ChunkTable(data, c, 0, 0)]

\* the sum of chunks[i]["size"] for i in range(chunk_id), client.py:546-548
RECURSIVE PrefixSum(_, _)
PrefixSum(chunks, chunk_id) ==
    IF chunk_id <= 0 THEN 0
    ELSE PrefixSum(chunks, chunk_id - 1) + chunks[chunk_id].size

\* what get_chunk gives: bytes, None, or an exception that leaves it
ChunkBytes(data) == [kind |-> "bytes", data |-> data]
ChunkNone == [kind |-> "None", data |-> <<>>]
ChunkRaise == [kind |-> "IndexError", data |-> <<>>]

\* a get_chunk that finds chunk id at id * size of the chunk
get_chunk_FixedOffset(fc, dk, filename, chunk_id) ==
    IF filename \notin DOMAIN fc THEN ChunkNone
    ELSE LET chunks == fc[filename].chunks IN
         IF chunk_id >= Len(chunks) THEN ChunkNone
         ELSE IF chunk_id < 0 - Len(chunks) THEN ChunkRaise
         ELSE LET index == IF chunk_id >= 0 THEN chunk_id + 1
                           ELSE Len(chunks) + chunk_id + 1
                  chunk_metadata == chunks[index]
              IN IF filename \notin DOMAIN dk THEN ChunkNone
                 ELSE ChunkBytes(ReadAt(dk[filename],
                                        (IF chunk_id > 0 THEN chunk_id ELSE 0)
                                            * chunk_metadata.size,
                                        chunk_metadata.size))

(* Client.get_chunk, client.py:518-562.  chunks is a Python list: an index
   from -len to -1 counts from the end, an index below -len raises IndexError
   at line 540, outside the try block.  range(chunk_id) is empty for a
   negative chunk_id, so the read starts at 0.  A file that cannot be opened
   gives None. *)
get_chunk(fc, dk, filename, chunk_id) ==
    IF filename \notin DOMAIN fc THEN ChunkNone
    ELSE LET chunks == fc[filename].chunks IN
         IF chunk_id >= Len(chunks) THEN ChunkNone
         ELSE IF chunk_id < 0 - Len(chunks) THEN ChunkRaise
         ELSE LET index == IF chunk_id >= 0 THEN chunk_id + 1
                           ELSE Len(chunks) + chunk_id + 1
                  chunk_metadata == chunks[index]
                  start_position == PrefixSum(chunks, chunk_id)
              IN IF filename \notin DOMAIN dk THEN ChunkNone
                 ELSE ChunkBytes(ReadAt(dk[filename], start_position,
                                        chunk_metadata.size))

\* the requests a peer server receives
RequestChunk(filename, chunk_id) ==
    [type |-> "REQUEST_CHUNK", filename |-> filename, chunk_id |-> chunk_id]
RequestMetadata(filename) ==
    [type |-> "REQUEST_METADATA", filename |-> filename, chunk_id |-> 0]
PingRequest == [type |-> "PING", filename |-> "f1", chunk_id |-> 0]

\* what the peer server sends before it closes the connection
EmptyMetadata == [size |-> 0, checksum |-> Digest(<<>>), chunks |-> <<>>]
Sent(kind, data, metadata) == [kind |-> kind, data |-> data, metadata |-> metadata]
SentBytes(data) == Sent("bytes", data, EmptyMetadata)
SentText(text) == Sent(text, <<>>, EmptyMetadata)
SentMetadata(metadata) == Sent("json", <<>>, metadata)
\* the handler raised: the connection is closed and nothing was sent
SentNothing == Sent("nothing", <<>>, EmptyMetadata)

(* Client.handle_tcp_request, client.py:143-191 *)
handle_tcp_request(fc, dk, request) ==
    IF request.type = "PING" THEN SentText("PONG")
    ELSE IF request.type = "REQUEST_CHUNK"
    THEN LET chunk_data == get_chunk(fc, dk, request.filename, request.chunk_id) IN
         IF chunk_data.kind = "IndexError" THEN SentNothing
         ELSE IF chunk_data.kind = "bytes" /\ chunk_data.data # <<>>
              THEN SentBytes(chunk_data.data)
              ELSE SentText("CHUNK_NOT_FOUND")
    ELSE IF request.filename \in DOMAIN fc
         THEN SentMetadata(fc[request.filename])
         ELSE SentText("FILE_NOT_FOUND")

(* Client.scan_directory_for_files, client.py:718-742, from the i-th name of
   the directory listing on *)
RECURSIVE ScanFrom(_, _, _, _, _)
ScanFrom(fc, dk, names, i, c) ==
    IF i > Len(names) THEN fc
    ELSE LET filename == names[i]
             metadata == generate_file_metadata(dk[filename], c)
         IN IF filename \notin DOMAIN fc
            THEN ScanFrom(With(fc, filename, metadata), dk, names, i + 1, c)
            ELSE IF fc[filename].checksum # metadata.checksum
                 THEN ScanFrom(With(fc, filename, metadata), dk, names, i + 1, c)
                 ELSE ScanFrom(fc, dk, names, i + 1, c)

\* os.listdir(file_dir), in some order
RECURSIVE Listing(_)
Listing(names) ==
    IF names = {} THEN <<>>
    ELSE LET n == CHOOSE x \in names : TRUE IN <<n>> \o Listing(names \ {n})

scan_directory_for_files(fc, dk, c) == ScanFrom(fc, dk, Listing(DOMAIN dk), 1, c)

(* Client.check_for_deleted_files, client.py:102-129: one pass *)
check_for_deleted_files(fc, dk) == [f \in (DOMAIN fc) \cap (DOMAIN dk) |-> fc[f]]

-----------------------------------------------------------------------------
(* Client.download_file and its workers, client.py:202-429 and 564-651 *)

(* Client.host and Client.udp_port are the address of the tracker: every
   request to the tracker is sent to (self.host, self.udp_port), and main()
   builds the client from the tracker's IP address and port. *)
host == "h0"
udp_port == 9000

\* the peer that downloads
Downloader == "p3"

(* The UDP address from which peer p sends to the tracker, which is the key
   of its record and the pair the tracker lists for it.  The downloader runs
   on the tracker's machine; no peer has the tracker's own address, since the
   tracker's socket is bound to it. *)
HostOf(p) == CASE p = "p1" -> "h1" [] p = "p2" -> "h2" [] OTHER -> host
PortOf(p) == CASE p = "p1" -> udp_port [] p = "p2" -> udp_port + 1 [] OTHER -> udp_port + 2
Address(p) == [host |-> HostOf(p), port |-> PortOf(p)]

Hosts == {HostOf(p) : p \in Peers}

(* Client.query_tracker_for_peers, client.py:1055-1076: the answer to
   GET_PEERS when its status is 200 OK, None otherwise (the 404 answer is a
   JSON string, on which response.get raises). *)
query_tracker_for_peers(ap, fr, filename, t) ==
    LET r == process_peer_requests(ap, fr,
                 Datagram(Downloader, <<"GET_PEERS", filename>>, NoJson), t).response
    IN IF r.status = "200"
       THEN [found |-> TRUE,
             seeders |-> [i \in DOMAIN r.body.seeders |-> Address(r.body.seeders[i])]]
       ELSE [found |-> FALSE, seeders |-> <<>>]

(* Client.change_username, client.py:1170-1212: the global username after the
   tracker's answer to CHANGE_USERNAME username new_username; an empty
   new_username, or one with a space in it, sends nothing. *)
change_username(username, new_username, response) ==
    IF new_username # "" /\ response.status = "USERNAME_CHANGED"
    THEN new_username
    ELSE username

\* the filter at client.py:242-253
FilterSelf(sds) ==
    SelectSeq(sds, LAMBDA seeder : ~(seeder.host = host /\ seeder.port = udp_port))

\* seeder_availability.get(seeder, True)
Available(avail, seeder) == IF seeder \in DOMAIN avail THEN avail[seeder] ELSE TRUE

\* a first sighting that happens at every download
InitAvailability_Reset(avail, sds) ==
    [a \in (DOMAIN avail) \cup {sds[i] : i \in DOMAIN sds} |->
        IF a \in {sds[i] : i \in DOMAIN sds} THEN TRUE ELSE avail[a]]

\* client.py:261-264
InitAvailability(avail, sds) ==
    [a \in (DOMAIN avail) \cup {sds[i] : i \in DOMAIN sds} |->
        IF a \in DOMAIN avail THEN avail[a] ELSE TRUE]

(* How a peer server behaves: "ok" answers as handle_tcp_request does; "dead"
   accepts no connection or never answers; "corrupt" answers a chunk request
   with as many bytes as the chunk has, but other bytes; "cut" closes the
   connection before it has sent the whole chunk; "stall" sends part of the
   chunk and then nothing more, without closing. *)
Modes == {"ok", "dead", "corrupt", "cut", "stall"}

\* recv timed out after `data` was received
TimedOut(data) == Sent("timeout", data, EmptyMetadata)

\* connect raised, or recv timed out before any data
NoAnswer == TimedOut(<<>>)

Corrupted(data) == [i \in DOMAIN data |-> IF i = 1 THEN 1 - data[1] ELSE data[i]]

\* what the client can receive for `request` from a server in `mode` over store fc
Responses(mode, fc, dk, request) ==
    LET honest == handle_tcp_request(fc, dk, request) IN
    IF mode = "dead" THEN {NoAnswer}
    ELSE IF mode = "ok" \/ honest.kind # "bytes" THEN {honest}
    ELSE IF mode = "corrupt" THEN {SentBytes(Corrupted(honest.data))}
    ELSE IF mode = "cut"
         THEN {SentBytes(SubSeq(honest.data, 1, k)) : k \in 0..(Len(honest.data) - 1)}
         ELSE {TimedOut(SubSeq(honest.data, 1, k)) : k \in 0..(Len(honest.data) - 1)}

(* Client.request_file_metadata, client.py:564-596: the parsed JSON, or None
   for FILE_NOT_FOUND, for data that is no JSON and for any exception. *)
request_file_metadata(response) ==
    IF response.kind = "json"
    THEN [found |-> TRUE, metadata |-> response.metadata]
    ELSE [found |-> FALSE, metadata |-> EmptyMetadata]

\* the bytes of the literal CHUNK_NOT_FOUND
SentinelBytes == <<67, 72, 85, 78, 75, 95, 78, 79, 84, 95, 70, 79, 85, 78, 68>>

(* Client.request_chunk, client.py:378-429, for the advertised chunk size.
   It asks recv for at most the bytes still missing, so it never holds more
   than `size` bytes, and it compares the first data with the literal
   CHUNK_NOT_FOUND, which a recv of fewer than 15 bytes never equals.  A
   connection closed early ends the loop and what was received is returned.
   "except socket.timeout" names an attribute of the socket class, not an
   exception class, so a receive timeout ends in the outer handler: None. *)
request_chunk(response, size) ==
    IF response.kind = "timeout" THEN ChunkNone
    ELSE IF size = 0 THEN ChunkBytes(<<>>)
    ELSE IF response.kind = "CHUNK_NOT_FOUND"
         THEN IF size >= Len(SentinelBytes) THEN ChunkNone
              ELSE ChunkBytes(SubSeq(SentinelBytes, 1, size))
    ELSE IF response.kind = "bytes"
         THEN ChunkBytes(SubSeq(response.data, 1, Min(size, Len(response.data))))
         ELSE ChunkBytes(<<>>)

\* "if chunk_data:" at client.py:361
Truthy(chunk_data) == chunk_data.kind = "bytes" /\ chunk_data.data # <<>>

\* a TCP connection made to the peer server on host h
Contact(h, what) == [host |-> h, what |-> what]

(* The loop that asks the seeders for metadata, client.py:267-275, from the
   i-th seeder on.  servers gives the mode, stores the file_chunks and dk the
   shared directory of the peer server on each host. *)
RECURSIVE MetadataLoop(_, _, _, _, _, _, _, _)
MetadataLoop(sds, i, avail, made, servers, stores, dk, filename) ==
    IF i > Len(sds)
    THEN [found |-> FALSE, metadata |-> EmptyMetadata, avail |-> avail, made |-> made]
    ELSE LET seeder == sds[i] IN
         IF Available(avail, seeder)
         THEN LET response == CHOOSE r \in Responses(servers[seeder.host],
                                   stores[seeder.host], dk[seeder.host],
                                   RequestMetadata(filename)) : TRUE
                  got == request_file_metadata(response)
                  made1 == made \cup {Contact(seeder.host, "metadata")}
              IN IF got.found
                 THEN [found |-> TRUE, metadata |-> got.metadata,
                       avail |-> avail, made |-> made1]
                 ELSE MetadataLoop(sds, i + 1, [avail EXCEPT ![seeder] = FALSE],
                                   made1, servers, stores, dk, filename)
         ELSE MetadataLoop(sds, i + 1, avail, made, servers, stores, dk, filename)

\* the final verification of reassemble_file, client.py:632-647, against the
\* checksum in the client's own file_chunks; it only logs
ChecksumLog(own, filename, data) ==
    IF filename \in DOMAIN own
    THEN IF own[filename].checksum # Digest(data) THEN "failed" ELSE "successful"
    ELSE "none"

\* how download_file ends
\* choice is the answer to the re-seed prompt, when download_file asked
Ended(result, log) == [result |-> result, log |-> log, choice |-> "none"]
NotEnded == Ended("running", "none")

NoFile == [exists |-> FALSE, data |-> <<>>]

\* the threads that call download_file
Callers == {"d1", "d2"}

\* what the user types at a y/n prompt
Choices == {"y", "n"}

\* a lock that lets everyone in
LockFree_Always(l) == TRUE

\* Lock.acquire of "with self.lock:", client.py:207 and client.py:108
LockFree(l) == l = "free"

\* a prompt that takes every answer for a yes
Opted_Always(choice) == TRUE

\* "if choice == 'y':", client.py:338
Opted(choice) == choice = "y"

\* a completion test that lets every map pass
Completion_NoCheck(dc, total_chunks) == "complete"

\* "if len(downloaded_chunks) != total_chunks:", client.py:324
Completion(dc, total_chunks) ==
    IF Cardinality(DOMAIN dc) # total_chunks THEN "incomplete" ELSE "complete"

\* os.path.join(temp_dir, f"{filename}.part{chunk_id}"), client.py:362
PartPath(filename, chunk_id) == [filename |-> filename, part |-> chunk_id]

\* a merge that takes the parts from the greatest chunk id down
NextPart_Greatest(ids) == CHOOSE x \in ids : \A y \in ids : x >= y

\* "for i in sorted(downloaded_chunks.keys())", client.py:625: the next key
NextPart(ids) == CHOOSE x \in ids : \A y \in ids : x <= y

(* Client.reassemble_file, client.py:624-629: the part files of the map are
   copied into the output file in ascending order of the chunk ids the map
   has, whichever they are, and each part file is removed after its copy.
   td is the directory of the part files. *)
reassemble_file(dc, td) ==
    LET RECURSIVE From(_)
        From(ids) ==
            IF ids = {} THEN <<>>
            ELSE LET i == NextPart(ids)
                 IN td[dc[i]] \o From(ids \ {i})
    IN [data |-> From(DOMAIN dc),
        temp_dir |-> [path \in DOMAIN td \ {dc[i] : i \in DOMAIN dc} |-> td[path]]]

(* The end of download_file, client.py:323-334: the completion test, the
   removal from downloading_files on either path, and reassemble_file when the
   map is complete.  out is the output file as it was. *)
VerifyCompletion(dc, total_chunks, df, out, filename, td) ==
    IF Completion(dc, total_chunks) = "incomplete"
    THEN [result |-> "incomplete", downloading_files |-> df \ {filename},
          output_file |-> out, temp_dir |-> td]
    ELSE LET r == reassemble_file(dc, td) IN
         [result |-> "complete", downloading_files |-> df \ {filename},
          output_file |-> [exists |-> TRUE, data |-> r.data],
          temp_dir |-> r.temp_dir]

\* a worker that forgets the chunk id it could not get
Requeue_Drop(queue, chunk_id) == queue

\* chunk_queue.put(chunk_id), client.py:373 and client.py:376
Requeue(queue, chunk_id) == Append(queue, chunk_id)

(* Client.update_tracker_files, client.py:466-490: the datagram it sends, and
   whether it sends one: nothing is sent while file_chunks is empty. *)
UpdateFilesRequest(fc) ==
    LET names == Listing(DOMAIN fc) IN
    Datagram(Downloader, <<"UPDATE_FILES", "u1">>,
             JsonFiles([i \in DOMAIN names |->
                 FileObj(names[i], fc[names[i]].size, fc[names[i]].checksum)]))

update_tracker_files(fc, ap, fr, t, st) ==
    IF fc # <<>>
    THEN LET m == UpdateFilesRequest(fc)
             r == process_peer_requests(ap, fr, m, t)
         IN [ap |-> r.ap, fr |-> r.fr, sent |-> st \cup {m}]
    ELSE [ap |-> ap, fr |-> fr, sent |-> st]

(* Client.add_file_to_shared, client.py:431-464: the copy into file_dir, the
   metadata of the copy, save_metadata, sharing_files.add and
   update_tracker_files. *)
add_file_to_shared(fc, dk, sharing, filename, data, c, ap, fr, t, st) ==
    LET dk1 == With(dk, filename, data)
        fc1 == With(fc, filename, generate_file_metadata(data, c))
        u == update_tracker_files(fc1, ap, fr, t, st)
    IN [file_chunks |-> fc1, disk |-> dk1, sidecar |-> fc1,
        sharing_files |-> sharing \cup {filename},
        ap |-> u.ap, fr |-> u.fr, sent |-> u.sent]

\* the client state before any download_file call
SessionIdle ==
    /\ lock = "free"
    /\ calls = [c \in Callers |-> "new"]
    /\ downloading_files = {}
    /\ sharing_files = {}
    /\ own_disk = <<>>
    /\ sidecar = <<>>
    /\ sent = {}

\* no download is under way
DownloadIdle ==
    /\ peer_server = [h \in Hosts |-> "ok"]
    /\ own_chunks = <<>>
    /\ pc = "idle"
    /\ outcome = NotEnded
    /\ seeders = <<>>
    /\ seeder_availability = <<>>
    /\ seeder_metadata = EmptyMetadata
    /\ chunk_queue = <<>>
    /\ downloaded_chunks = <<>>
    /\ temp_dir = <<>>
    /\ worker = <<>>
    /\ output_file = NoFile
    /\ contacted = {}

\* no request has reached the peer server
NoRequest == [request |-> PingRequest, response |-> SentNothing]

\* the peer has an empty shared directory and serves nothing
StoreIdle ==
    /\ disk = <<>>
    /\ chunk_size = 1
    /\ file_chunks = <<>>
    /\ served = NoRequest

\* the tracker has just been constructed
TrackerIdle ==
    /\ active_peers = <<>>
    /\ file_repository = <<>>
    /\ now = 0
    /\ sweeper_running = TRUE

\* a thread that is not running a request
IdleThread ==
    [pc |-> "idle", m |-> Datagram("p1", <<>>, NoJson), t |-> 0, i |-> 0,
     files |-> <<>>, keys |-> <<>>]

\* the request threads of the model, and the cleanup thread (tracker.py:426)
ThreadIds == {"t1", "t2"}
Sweeper == "sweeper"
AllThreads == ThreadIds \cup {Sweeper}

ThreadsIdle ==
    /\ tracker_lock = "free"
    /\ threads = [t \in AllThreads |-> IdleThread]
    /\ serial = [ap |-> <<>>, fr |-> <<>>]

\* the threads of the client that send requests to the tracker: the keep-alive
\* thread (client.py:814), the main thread with the user's commands and the
\* file-check thread (client.py:99)
Tasks == {"keep_alive", "main", "file_check"}

\* no datagram: what a recvfrom that timed out leaves its caller with
NoDatagram ==
    [from_task |-> "none", request |-> Datagram("p1", <<>>, NoJson), response |-> NoReply]

IdleTask == [pc |-> "idle", op |-> "none", got |-> NoDatagram, error |-> "none"]

\* the client before any of its threads is started (client.py:94-100)
AliveIdle ==
    /\ tasks = <<>>
    /\ udp_socket = [queue |-> <<>>, dropped |-> 0]
    /\ process = "running"


-----------------------------------------------------------------------------
(* The state machine *)

Init ==
    /\ TrackerIdle
    /\ StoreIdle
    /\ DownloadIdle
    /\ ThreadsIdle
    /\ AliveIdle
    /\ SessionIdle

\* what process_peer_requests does with datagram m in the current state
Handled(m) == process_peer_requests(active_peers, file_repository, m, now)

(* One request thread: process_peer_requests on datagram m, start to end.
   Repeated REGISTER requests make a repository list grow without limit; the
   model stops at lists longer than peer_limit, the length a list has when
   every admitted peer holds one entry. *)
Receive(m) ==
    LET r == Handled(m) IN
    /\ \A fn \in DOMAIN r.fr : Len(r.fr[fn]) <= peer_limit
    /\ active_peers' = r.ap
    /\ file_repository' = r.fr
    /\ UNCHANGED <<now, sweeper_running>>
    /\ UNCHANGED store_vars
    /\ UNCHANGED download_vars
    /\ UNCHANGED thread_vars
    /\ UNCHANGED session_vars
    /\ UNCHANGED alive_vars

Register ==
    \E m \in RegisterDatagrams :
        /\ m.tokens[1] = "REGISTER"
        /\ Receive(m)

ListActive ==
    \E m \in ListActiveDatagrams :
        /\ m.tokens[1] = "LIST_ACTIVE"
        /\ Receive(m)

ListFiles ==
    \E m \in ListFilesDatagrams :
        /\ m.tokens[1] = "LIST_FILES"
        /\ Receive(m)

Disconnect ==
    \E m \in {DisconnectDatagram(p) : p \in Peers} :
        /\ m.tokens[1] = "DISCONNECT"
        /\ Receive(m)

KeepAlive ==
    \E m \in {KeepAliveDatagram(p) : p \in Peers} :
        /\ m.tokens[1] = "KEEP_ALIVE"
        /\ Receive(m)

Ping ==
    \E m \in PingDatagrams :
        /\ m.tokens[1] = "PING"
        /\ Receive(m)

GetPeers ==
    \E m \in GetPeersDatagrams :
        /\ m.tokens[1] = "GET_PEERS"
        /\ Receive(m)

UpdateFiles ==
    \E m \in UpdateFilesDatagrams :
        /\ m.tokens[1] = "UPDATE_FILES"
        /\ Receive(m)

ChangeUsername ==
    \E m \in ChangeUsernameDatagrams :
        /\ m.tokens[1] = "CHANGE_USERNAME"
        /\ Receive(m)

\* an empty datagram, or a first token the tracker does not know
BadRequest ==
    \E m \in BadDatagrams :
        /\ m.tokens \in {<<>>, <<"HELLO">>}
        /\ Receive(m)

\* one pass of the cleanup thread
Sweep ==
    /\ sweeper_running
    /\ LET r == remove_inactive_peers(active_peers, file_repository, now) IN
       /\ active_peers' = r.ap
       /\ file_repository' = r.fr
       /\ sweeper_running' = ~r.raised
    /\ UNCHANGED now
    /\ UNCHANGED store_vars
    /\ UNCHANGED download_vars
    /\ UNCHANGED thread_vars
    /\ UNCHANGED session_vars
    /\ UNCHANGED alive_vars

\* time passes
Tick ==
    /\ now < MaxTime
    /\ now' = now + 1
    /\ UNCHANGED <<active_peers, file_repository, sweeper_running>>
    /\ UNCHANGED store_vars
    /\ UNCHANGED download_vars
    /\ UNCHANGED thread_vars
    /\ UNCHANGED session_vars
    /\ UNCHANGED alive_vars

Next ==
    \/ Register
    \/ ListActive
    \/ ListFiles
    \/ Disconnect
    \/ KeepAlive
    \/ Ping
    \/ GetPeers
    \/ UpdateFiles
    \/ ChangeUsername
    \/ BadRequest
    \/ Sweep
    \/ Tick

Spec == Init /\ [][Next]_vars

-----------------------------------------------------------------------------
(* The state machine of the chunk store and peer server *)

\* the requests sent to the peer server
ChunkIds == (0 - (MaxLen + 1))..(MaxLen + 1)

TcpRequests ==
    {RequestChunk(fn, id) : fn \in Filenames, id \in ChunkIds}
    \cup {RequestMetadata(fn) : fn \in Filenames}
    \cup {PingRequest}

StoreInit ==
    /\ TrackerIdle
    /\ disk = <<>>
    /\ chunk_size \in 1..MaxChunk
    /\ file_chunks = <<>>
    /\ served = NoRequest
    /\ DownloadIdle
    /\ ThreadsIdle
    /\ AliveIdle
    /\ SessionIdle

\* the user puts a file f1 into the shared directory, or changes its content
WriteFile ==
    \E content \in Contents :
        /\ disk' = With(disk, "f1", content)
        /\ UNCHANGED <<chunk_size, file_chunks, served>>
        /\ UNCHANGED tracker_vars
        /\ UNCHANGED download_vars
        /\ UNCHANGED thread_vars
        /\ UNCHANGED session_vars
        /\ UNCHANGED alive_vars

\* the user deletes the file
DeleteFile ==
    /\ "f1" \in DOMAIN disk
    /\ disk' = Without(disk, "f1")
    /\ UNCHANGED <<chunk_size, file_chunks, served>>
    /\ UNCHANGED tracker_vars
    /\ UNCHANGED download_vars
    /\ UNCHANGED thread_vars
    /\ UNCHANGED session_vars
    /\ UNCHANGED alive_vars

ScanDirectory ==
    /\ file_chunks' = scan_directory_for_files(file_chunks, disk, chunk_size)
    /\ UNCHANGED <<disk, chunk_size, served>>
    /\ UNCHANGED tracker_vars
    /\ UNCHANGED download_vars
    /\ UNCHANGED thread_vars
    /\ UNCHANGED session_vars
    /\ UNCHANGED alive_vars

CheckForDeletedFiles ==
    /\ file_chunks' = check_for_deleted_files(file_chunks, disk)
    /\ UNCHANGED <<disk, chunk_size, served>>
    /\ UNCHANGED tracker_vars
    /\ UNCHANGED download_vars
    /\ UNCHANGED thread_vars
    /\ UNCHANGED session_vars
    /\ UNCHANGED alive_vars

\* one connection to the peer server: one request, one response
HandleTcpRequest ==
    \E request \in TcpRequests :
        /\ served' = [request |-> request,
                      response |-> handle_tcp_request(file_chunks, disk, request)]
        /\ UNCHANGED <<disk, chunk_size, file_chunks>>
        /\ UNCHANGED tracker_vars
        /\ UNCHANGED download_vars
        /\ UNCHANGED thread_vars
        /\ UNCHANGED session_vars
        /\ UNCHANGED alive_vars

StoreNext ==
    \/ WriteFile
    \/ DeleteFile
    \/ ScanDirectory
    \/ CheckForDeletedFiles
    \/ HandleTcpRequest

StoreSpec == StoreInit /\ [][StoreNext]_vars

-----------------------------------------------------------------------------
(* One call download_file("f1") of the client Downloader: DownloadSpec.

   The seeders p1 and p2 share the same file f1, chunked with the same
   chunk_size, so one disk and one file_chunks stand for the store of each
   of them.  The downloader has either no entry for f1 or, when it seeds the
   file itself, the same entry.  The peer server of p2 always answers; the
   peer server of p1 may at any time stop answering properly.  A worker is
   one download_chunk_worker thread; its steps are the operations on the
   shared chunk_queue: the emptiness test of the while loop, get_nowait, and
   the request with what follows it (record the part, or mark the seeder and
   put the chunk id back).  The recovery thread and the file-check thread
   do not run in DownloadSpec; they run in SessionSpec.  At the end of a
   completed download the user answers the re-seed prompt with y or n.

   request_chunk and request_file_metadata connect to port 12000 of the
   seeder's host whatever port the seeder listens on, so peer_server[h] is
   what listens on port 12000 of host h.  The seeders p1 and p2 are clients
   constructed with tcp_port = 12000.  The downloader is either such a client,
   or the client that main() constructs with tcp_port = 12001, on whose host
   nothing listens on port 12000. *)

\* the file f1 that the seeders share: empty, or MaxLen bytes
SharedContents == {<<>>, [i \in 1..MaxLen |-> i % 2]}

\* who registered with the tracker as a seeder of f1, in registration order
SeederOrders == {<<>>, <<"p1">>, <<"p1", "p2">>, <<Downloader>>, <<Downloader, "p1">>}

\* the tracker state after the peers of `order` registered as seeders of f1
RECURSIVE Registered(_)
Registered(order) ==
    IF order = <<>> THEN [ap |-> <<>>, fr |-> <<>>]
    ELSE LET before == Registered(SubSeq(order, 1, Len(order) - 1))
             m == Datagram(order[Len(order)], <<"REGISTER", "seeder", "u1">>,
                           JsonFiles(<<F1c>>))
             r == process_peer_requests(before.ap, before.fr, m, 0)
         IN [ap |-> r.ap, fr |-> r.fr]

S1 == Address("p1")
S2 == Address("p2")

DownloadInit ==
    /\ \E content \in SharedContents : disk = [fn \in {"f1"} |-> content]
    /\ chunk_size \in 1..MaxChunk
    /\ file_chunks = scan_directory_for_files(<<>>, disk, chunk_size)
    /\ served = NoRequest
    /\ \E order \in SeederOrders :
          /\ active_peers = Registered(order).ap
          /\ file_repository = Registered(order).fr
          /\ own_chunks \in IF \E i \in DOMAIN order : order[i] = Downloader
                            THEN {file_chunks} ELSE {<<>>, file_chunks}
    /\ now = 0
    /\ sweeper_running = TRUE
    /\ \E mode \in {"ok", "dead"} :
          peer_server = [h \in Hosts |-> IF h = HostOf(Downloader) THEN mode ELSE "ok"]
    /\ pc = "start"
    /\ outcome = NotEnded
    /\ seeders = <<>>
    /\ seeder_availability = <<>>
    /\ seeder_metadata = EmptyMetadata
    /\ chunk_queue = <<>>
    /\ downloaded_chunks = <<>>
    /\ temp_dir = <<>>
    /\ worker = <<>>
    /\ output_file = NoFile
    /\ contacted = {}
    /\ ThreadsIdle
    /\ AliveIdle
    /\ lock = "free"
    /\ calls = [c \in Callers |-> IF c = "d1" THEN "waiting" ELSE "new"]
    /\ downloading_files = {}
    /\ sharing_files = {}
    /\ own_disk = [fn \in DOMAIN own_chunks |-> disk[fn]]
    /\ sidecar = own_chunks
    /\ sent = {}

\* the file_chunks that the peer server on each host serves from
Stores == [h \in Hosts |-> IF h = HostOf(Downloader) THEN own_chunks ELSE file_chunks]

\* the shared directory that the peer server on each host reads from
Disks == [h \in Hosts |-> IF h = HostOf(Downloader) THEN own_disk ELSE disk]

(* download_file returns: the with block ends and releases the lock,
   whichever return statement was reached *)
Return(c, result, log) ==
    /\ pc' = "returned"
    /\ outcome' = Ended(result, log)
    /\ lock' = "free"
    /\ calls' = [calls EXCEPT ![c] = "done"]

(* download_file up to the start of the workers, client.py:207-318.  The
   returns before the workers start leave the with block in the same step. *)
StartDownload ==
    \E c \in Callers :
    /\ calls[c] = "waiting"
    /\ LockFree(lock)
    /\ \E choice \in IF output_file.exists THEN Choices ELSE {"y"} :
       LET response == query_tracker_for_peers(active_peers, file_repository, "f1", now)
           filtered == FilterSelf(response.seeders)
           avail == InitAvailability(seeder_availability, filtered)
           m == MetadataLoop(filtered, 1, avail, {}, peer_server, Stores, Disks, "f1")
       IN IF choice # "y"
          THEN /\ Return(c, "kept", "none")
               /\ UNCHANGED <<seeders, seeder_availability, seeder_metadata, chunk_queue,
                              downloaded_chunks, temp_dir, worker, contacted, downloading_files>>
          ELSE IF ~response.found \/ response.seeders = <<>> \/ filtered = <<>>
          THEN /\ Return(c, IF ~response.found THEN "no_response"
                            ELSE IF response.seeders = <<>> THEN "no_seeders"
                            ELSE "only_self", "none")
               /\ downloading_files' = downloading_files \ {"f1"}
               /\ UNCHANGED <<seeders, seeder_availability, seeder_metadata,
                              chunk_queue, downloaded_chunks, temp_dir, worker, contacted>>
          ELSE IF ~m.found
          THEN /\ Return(c, "no_metadata", "none")
               /\ downloading_files' = downloading_files \ {"f1"}
               /\ seeder_availability' = m.avail
               /\ contacted' = contacted \cup m.made
               /\ UNCHANGED <<seeders, seeder_metadata, chunk_queue, downloaded_chunks, temp_dir,
                              worker>>
          ELSE /\ pc' = "workers"
               /\ lock' = c
               /\ calls' = [calls EXCEPT ![c] = "running"]
               /\ downloading_files' = downloading_files \cup {"f1"}
               /\ seeders' = filtered
               /\ seeder_availability' = m.avail
               /\ contacted' = contacted \cup m.made
               /\ seeder_metadata' = m.metadata
               /\ chunk_queue' = [i \in 1..Len(m.metadata.chunks) |-> i - 1]
               /\ downloaded_chunks' = <<>>
               /\ UNCHANGED temp_dir
               /\ worker' = [i \in DOMAIN filtered |-> [pc |-> "loop", chunk_id |-> 0]]
               /\ outcome' = NotEnded
    /\ UNCHANGED <<peer_server, own_chunks, output_file>>
    /\ UNCHANGED <<sharing_files, own_disk, sidecar, sent>>
    /\ UNCHANGED tracker_vars
    /\ UNCHANGED store_vars
    /\ UNCHANGED thread_vars
    /\ UNCHANGED alive_vars

\* "while not chunk_queue.empty()", client.py:348
WorkerEmptyCheck(i) ==
    /\ pc = "workers"
    /\ i \in DOMAIN worker
    /\ worker[i].pc = "loop"
    /\ worker' = [worker EXCEPT ![i].pc = IF chunk_queue = <<>> THEN "exited" ELSE "get"]
    /\ UNCHANGED <<peer_server, own_chunks, pc, outcome, seeders, seeder_availability,
                   seeder_metadata, chunk_queue, downloaded_chunks, temp_dir, output_file,
                   contacted>>
    /\ UNCHANGED tracker_vars
    /\ UNCHANGED store_vars
    /\ UNCHANGED thread_vars
    /\ UNCHANGED session_vars
    /\ UNCHANGED alive_vars

\* chunk_queue.get_nowait(), client.py:349-352
WorkerGet(i) ==
    /\ pc = "workers"
    /\ i \in DOMAIN worker
    /\ worker[i].pc = "get"
    /\ IF chunk_queue = <<>>
       THEN /\ worker' = [worker EXCEPT ![i].pc = "exited"]
            /\ UNCHANGED chunk_queue
       ELSE /\ worker' = [worker EXCEPT ![i] = [pc |-> "request", chunk_id |-> Head(chunk_queue)]]
            /\ chunk_queue' = Tail(chunk_queue)
    /\ UNCHANGED <<peer_server, own_chunks, pc, outcome, seeders, seeder_availability,
                   seeder_metadata, downloaded_chunks, temp_dir, output_file, contacted>>
    /\ UNCHANGED tracker_vars
    /\ UNCHANGED store_vars
    /\ UNCHANGED thread_vars
    /\ UNCHANGED session_vars
    /\ UNCHANGED alive_vars

\* the rest of the loop body, client.py:354-376
WorkerRequest(i) ==
    /\ pc = "workers"
    /\ i \in DOMAIN worker
    /\ worker[i].pc = "request"
    /\ LET seeder == seeders[i]
           chunk_id == worker[i].chunk_id
           size == seeder_metadata.chunks[chunk_id + 1].size
       IN IF Available(seeder_availability, seeder)
          THEN \E response \in Responses(peer_server[seeder.host], Stores[seeder.host],
                                         Disks[seeder.host],
                                         RequestChunk("f1", chunk_id)) :
                  LET chunk_data == request_chunk(response, size) IN
                  /\ contacted' = contacted \cup {Contact(seeder.host, "chunk")}
                  /\ IF Truthy(chunk_data)
                     THEN LET chunk_path == PartPath("f1", chunk_id) IN
                          /\ temp_dir' = With(temp_dir, chunk_path, chunk_data.data)
                          /\ downloaded_chunks' = With(downloaded_chunks, chunk_id, chunk_path)
                          /\ UNCHANGED <<seeder_availability, chunk_queue>>
                     ELSE /\ seeder_availability' = With(seeder_availability, seeder, FALSE)
                          /\ chunk_queue' = Requeue(chunk_queue, chunk_id)
                          /\ UNCHANGED <<downloaded_chunks, temp_dir>>
          ELSE /\ chunk_queue' = Requeue(chunk_queue, chunk_id)
               /\ UNCHANGED <<seeder_availability, downloaded_chunks, temp_dir, contacted>>
    /\ worker' = [worker EXCEPT ![i].pc = "loop"]
    /\ UNCHANGED <<peer_server, own_chunks, pc, outcome, seeders, seeder_metadata, output_file>>
    /\ UNCHANGED tracker_vars
    /\ UNCHANGED store_vars
    /\ UNCHANGED thread_vars
    /\ UNCHANGED session_vars
    /\ UNCHANGED alive_vars

\* one step of the i-th worker thread
WorkerStep(i) == WorkerEmptyCheck(i) \/ WorkerGet(i) \/ WorkerRequest(i)

(* download_file after every future has its result, client.py:320-339, with
   reassemble_file and, when the user answers y, add_file_to_shared *)
FinishDownload ==
    /\ pc = "workers"
    /\ \A i \in DOMAIN worker : worker[i].pc = "exited"
    /\ LET total_chunks == Len(seeder_metadata.chunks)
           v == VerifyCompletion(downloaded_chunks, total_chunks, downloading_files,
                                 output_file, "f1", temp_dir)
       IN
       /\ downloading_files' = v.downloading_files
       /\ output_file' = v.output_file
       /\ temp_dir' = v.temp_dir
       /\ IF v.result = "incomplete"
          THEN /\ Return(lock, "incomplete", "none")
               /\ UNCHANGED <<own_chunks, sharing_files, own_disk, sidecar, sent,
                              active_peers, file_repository>>
          ELSE \E choice \in Choices :
               LET data == v.output_file.data
                   a == add_file_to_shared(own_chunks, own_disk, sharing_files, "f1", data,
                                           chunk_size, active_peers, file_repository, now,
                                           sent)
               IN
               /\ pc' = "returned"
               /\ outcome' = [Ended("complete", ChecksumLog(own_chunks, "f1", data))
                                 EXCEPT !.choice = choice]
               /\ lock' = "free"
               /\ calls' = [calls EXCEPT ![lock] = "done"]
               /\ IF Opted(choice)
                  THEN /\ own_chunks' = a.file_chunks
                       /\ own_disk' = a.disk
                       /\ sidecar' = a.sidecar
                       /\ sharing_files' = a.sharing_files
                       /\ sent' = a.sent
                       /\ active_peers' = a.ap
                       /\ file_repository' = a.fr
                  ELSE UNCHANGED <<own_chunks, sharing_files, own_disk, sidecar, sent,
                                   active_peers, file_repository>>
    /\ UNCHANGED <<peer_server, seeders, seeder_availability, seeder_metadata,
                   chunk_queue, downloaded_chunks, worker, contacted>>
    /\ UNCHANGED <<now, sweeper_running>>
    /\ UNCHANGED store_vars
    /\ UNCHANGED thread_vars
    /\ UNCHANGED alive_vars

\* the peer server of p1 stops answering properly
ServerFails ==
    \E mode \in Modes \ {"ok"} :
        /\ pc # "returned"
        /\ peer_server[S1.host] = "ok"
        /\ peer_server' = [peer_server EXCEPT ![S1.host] = mode]
        /\ UNCHANGED <<own_chunks, pc, outcome, seeders, seeder_availability, seeder_metadata,
                       chunk_queue, downloaded_chunks, temp_dir, worker, output_file, contacted>>
        /\ UNCHANGED tracker_vars
        /\ UNCHANGED store_vars
        /\ UNCHANGED thread_vars
        /\ UNCHANGED session_vars
        /\ UNCHANGED alive_vars

\* at most MaxWorkers seeders are listed, and each gets a worker thread
MaxWorkers == peer_limit

WorkerEmptyChecks == \E i \in 1..MaxWorkers : WorkerEmptyCheck(i)
WorkerGets == \E i \in 1..MaxWorkers : WorkerGet(i)
WorkerRequests == \E i \in 1..MaxWorkers : WorkerRequest(i)

DownloadNext ==
    \/ StartDownload
    \/ WorkerEmptyChecks
    \/ WorkerGets
    \/ WorkerRequests
    \/ FinishDownload
    \/ ServerFails

(* Every thread that can run does run: the main thread of download_file and
   each worker thread of the pool.  Nothing obliges a peer server to fail. *)
DownloadFairness ==
    /\ WF_vars(StartDownload)
    /\ WF_vars(FinishDownload)
    /\ \A i \in 1..MaxWorkers : WF_vars(WorkerStep(i))

DownloadSpec == DownloadInit /\ [][DownloadNext]_vars /\ DownloadFairness

-----------------------------------------------------------------------------
(* A session of the downloading client: download_file is called by two
   callers, the file-check thread (client.py:99) and the seeder-recovery
   thread (client.py:95) run beside them, and the user may delete the file
   from the shared directory.  p1 is registered as a seeder of f1 and the
   downloader either as a leecher, with nothing to share, or as a seeder of
   its own copy of f1.  The tracker answers each datagram of the client as
   process_peer_requests does, within the step that sends it. *)

SessionRoles == {"leecher", "seeder"}

\* the tracker after p1 registered as a seeder of f1 and the downloader in `role`
SessionTracker(role, fc) ==
    LET before == Registered(<<"p1">>)
        m == IF role = "seeder"
             THEN Datagram(Downloader, <<"REGISTER", "seeder", "u1">>,
                           UpdateFilesRequest(fc).json)
             ELSE Datagram(Downloader, <<"REGISTER", "leecher", "u1">>, NoJson)
        r == process_peer_requests(before.ap, before.fr, m, 0)
    IN [ap |-> r.ap, fr |-> r.fr]

SessionInit ==
    /\ disk = [fn \in {"f1"} |-> [i \in 1..MaxLen |-> i % 2]]
    /\ chunk_size = MaxChunk
    /\ file_chunks = scan_directory_for_files(<<>>, disk, chunk_size)
    /\ served = NoRequest
    /\ \E role \in SessionRoles :
          /\ own_chunks = IF role = "seeder" THEN file_chunks ELSE <<>>
          /\ active_peers = SessionTracker(role, file_chunks).ap
          /\ file_repository = SessionTracker(role, file_chunks).fr
    /\ now = 0
    /\ sweeper_running = TRUE
    /\ peer_server = [h \in Hosts |-> "ok"]
    /\ pc = "start"
    /\ outcome = NotEnded
    /\ seeders = <<>>
    /\ seeder_availability = <<>>
    /\ seeder_metadata = EmptyMetadata
    /\ chunk_queue = <<>>
    /\ downloaded_chunks = <<>>
    /\ temp_dir = <<>>
    /\ worker = <<>>
    /\ output_file = NoFile
    /\ contacted = {}
    /\ ThreadsIdle
    /\ AliveIdle
    /\ lock = "free"
    /\ calls = [c \in Callers |-> "new"]
    /\ downloading_files = {}
    /\ sharing_files = {}
    /\ own_disk = [fn \in DOMAIN own_chunks |-> disk[fn]]
    /\ sidecar = own_chunks
    /\ sent = {}

\* download_file is called: the caller stands before "with self.lock:", client.py:207
Call(c) ==
    /\ calls[c] = "new"
    /\ calls' = [calls EXCEPT ![c] = "waiting"]
    /\ UNCHANGED <<lock, downloading_files, sharing_files, own_disk, sidecar, sent>>
    /\ UNCHANGED tracker_vars
    /\ UNCHANGED store_vars
    /\ UNCHANGED download_vars
    /\ UNCHANGED thread_vars
    /\ UNCHANGED alive_vars

\* the user deletes the file from the downloader's shared directory
DeleteShared ==
    /\ "f1" \in DOMAIN own_disk
    /\ own_disk' = Without(own_disk, "f1")
    /\ UNCHANGED <<lock, calls, downloading_files, sharing_files, sidecar, sent>>
    /\ UNCHANGED tracker_vars
    /\ UNCHANGED store_vars
    /\ UNCHANGED download_vars
    /\ UNCHANGED thread_vars
    /\ UNCHANGED alive_vars

(* One pass of Client.check_for_deleted_files, client.py:102-129, under the
   lock: the files gone from the directory leave file_chunks and
   sharing_files, then save_metadata and update_tracker_files. *)
Rescan ==
    /\ LockFree(lock)
    /\ LET fc1 == check_for_deleted_files(own_chunks, own_disk)
           u == update_tracker_files(fc1, active_peers, file_repository, now, sent)
       IN /\ own_chunks' = fc1
          /\ sharing_files' = sharing_files \ ((DOMAIN own_chunks) \ (DOMAIN own_disk))
          /\ sidecar' = fc1
          /\ sent' = u.sent
          /\ active_peers' = u.ap
          /\ file_repository' = u.fr
    /\ UNCHANGED <<lock, calls, downloading_files, own_disk>>
    /\ UNCHANGED <<now, sweeper_running>>
    /\ UNCHANGED <<peer_server, pc, outcome, seeders, seeder_availability, seeder_metadata,
                   chunk_queue, downloaded_chunks, temp_dir, worker, output_file, contacted>>
    /\ UNCHANGED store_vars
    /\ UNCHANGED thread_vars
    /\ UNCHANGED alive_vars

\* the answer to PING is PONG, client.py:510
Ponged(response) == response = SentText("PONG")

(* Client.recover_unavailable_seeders, client.py:492-516, for one of the
   seeders marked unavailable: PING to port 12000 of its host. *)
Recover(s) ==
    /\ s \in DOMAIN seeder_availability
    /\ ~seeder_availability[s]
    /\ \E response \in Responses(peer_server[s.host], Stores[s.host], Disks[s.host],
                                 PingRequest) :
          seeder_availability' =
              IF Ponged(response) THEN [seeder_availability EXCEPT ![s] = TRUE]
              ELSE seeder_availability
    /\ contacted' = contacted \cup {Contact(s.host, "ping")}
    /\ UNCHANGED <<peer_server, own_chunks, pc, outcome, seeders, seeder_metadata,
                   chunk_queue, downloaded_chunks, temp_dir, worker, output_file>>
    /\ UNCHANGED session_vars
    /\ UNCHANGED tracker_vars
    /\ UNCHANGED store_vars
    /\ UNCHANGED thread_vars
    /\ UNCHANGED alive_vars

Calling == \E c \in Callers : Call(c)
Recovering == \E p \in Peers : Recover(Address(p))

SessionNext ==
    \/ Calling
    \/ StartDownload
    \/ WorkerEmptyChecks
    \/ WorkerGets
    \/ WorkerRequests
    \/ FinishDownload
    \/ ServerFails
    \/ DeleteShared
    \/ Rescan
    \/ Recovering

(* The threads of the client that can run do run: the callers, the workers,
   the file-check thread and the recovery thread.  Nothing obliges the user
   to call download_file or to delete a file, or a peer server to fail. *)
SessionFairness ==
    /\ DownloadFairness
    /\ WF_vars(Rescan)
    /\ WF_vars(Recovering)

SessionSpec == SessionInit /\ [][SessionNext]_vars /\ SessionFairness

-----------------------------------------------------------------------------
(* Vocabulary of the properties *)

\* every element of the list is an object that has a filename
WellFormedFiles(files) ==
    \A j \in DOMAIN files : files[j].kind = "object" /\ files[j].filename # NoKey

\* every record holds a well-formed files list
AllWellFormed(ap) == \A i \in DOMAIN ap : WellFormedFiles(ap[i].files)

\* the filenames a files list names
NamesIn(files) ==
    {files[j].filename : j \in {k \in DOMAIN files :
                                  files[k].kind = "object" /\ files[k].filename # NoKey}}

\* the filenames that record info advertises: those of a seeder's current files list
Advertised(info) == IF info.type = "seeder" THEN NamesIn(info.files) ELSE {}

\* the record of address p says it is a seeder whose files list names exactly the filenames in names
SeedsExactly(ap, p, names) ==
    p \in Keys(ap) /\ Get(ap, p).type = "seeder" /\ NamesIn(Get(ap, p).files) = names

\* the number of entries of address p in the list fr[fn]
EntryCount(fr, fn, p) ==
    IF fn \in DOMAIN fr
    THEN Cardinality({i \in DOMAIN fr[fn] : fr[fn][i].peer_address = p})
    ELSE 0

\* no list of the repository holds an entry of address p
NoEntryOf(fr, p) == \A fn \in DOMAIN fr : p \notin EntryPeers(fr, fn)

\* the addresses in either list of a LIST_ACTIVE answer
Listed(ap, fr) ==
    LET body == list_active_peers(ap, fr).response.body
    IN {body.seeders[i].peer : i \in DOMAIN body.seeders}
       \cup {body.leechers[i].peer : i \in DOMAIN body.leechers}

\* the addresses in the seeders list of the answer to GET_PEERS fn
PeersFor(ap, fr, fn) ==
    LET body == get_peers_for_file(ap, fr, fn).response.body
    IN {body.seeders[i] : i \in DOMAIN body.seeders}

\* the REGISTER datagrams that pass handle_register_requests and reach register_peer
Registrations ==
    {m \in RegisterDatagrams :
        /\ Len(m.tokens) = 3
        /\ m.tokens[2] \in {"seeder", "leecher"}
        /\ m.tokens[2] = "seeder" => (m.json.kind = "object" /\ m.json.has_files)}

\* the registrations whose files list is well-formed
WellFormedRegistrations == {m \in Registrations : WellFormedFiles(m.json.files)}

-----------------------------------------------------------------------------
(* C1: in every reachable tracker state the number of records in active_peers
   is at most peer_limit (and no address has two records). *)
C1_PeerLimit ==
    /\ Len(active_peers) <= peer_limit
    /\ Cardinality(Keys(active_peers)) = Len(active_peers)

\* the table is full, and one of its peers was refreshed or registered after the other
C1_Witness ==
    /\ Len(active_peers) = peer_limit
    /\ active_peers[1].last_activity # active_peers[2].last_activity

(* C2: a filename is a key of file_repository if and only if at least one
   record of active_peers with type seeder has that filename in its current
   files list. *)
C2_RepositoryMatchesSeeders ==
    \A fn \in Filenames :
        fn \in DOMAIN file_repository
        <=> \E i \in DOMAIN active_peers : fn \in Advertised(active_peers[i])

(* C3: every entry of every file_repository list has a peer_address that is a
   key of active_peers and whose record has type seeder. *)
C3_EntriesOfActiveSeeders ==
    \A fn \in DOMAIN file_repository :
        \A p \in EntryPeers(file_repository, fn) :
            p \in Keys(active_peers) /\ Get(active_peers, p).type = "seeder"

(* C4: after the tracker processes DISCONNECT from a registered address P, P
   is not in active_peers, P is in neither list of a LIST_ACTIVE answer, and
   no file_repository entry has peer_address P.  Stated for the records whose
   files lists are well-formed, whatever P registered before. *)
C4_DisconnectRemovesPeer ==
    [][\A p \in Peers :
          (/\ p \in Keys(active_peers)
           /\ AllWellFormed(active_peers)
           /\ Receive(DisconnectDatagram(p)))
          => /\ p \notin Keys(active_peers')
             /\ p \notin Listed(active_peers', file_repository')
             /\ NoEntryOf(file_repository', p)]_vars

(* C5: once the last_activity of a registered peer is older than
   peer_timeout, the pass of the sweeper that runs next removes the peer's
   record and all of its file_repository entries, leaves no filename without
   a seeder, and LIST_ACTIVE no longer lists the peer.  Stated for the passes
   over records whose files lists are well-formed. *)
C5_SweepRemovesTimedOutPeer ==
    \A p \in Keys(active_peers) :
        (/\ sweeper_running
         /\ Expired(Get(active_peers, p), now)
         /\ AllWellFormed(active_peers))
        => LET r == remove_inactive_peers(active_peers, file_repository, now) IN
           /\ p \notin Keys(r.ap)
           /\ NoEntryOf(r.fr, p)
           /\ \A fn \in DOMAIN r.fr : r.fr[fn] # <<>>
           /\ p \notin Listed(r.ap, r.fr)

(* C6: a REGISTER that reaches the admission test while the number of active
   peers equals peer_limit is answered 403 and leaves active_peers and
   file_repository unchanged; with peer_limit = 2 the REGISTER of a third
   address is answered 403.  Handled(m) is what the step Receive(m) does in
   the current state. *)
C6_AdmissionFull ==
    Len(active_peers) = peer_limit
    => \A m \in Registrations :
          /\ Handled(m).response.status = "403"
          /\ Handled(m).ap = active_peers
          /\ Handled(m).fr = file_repository

\* two addresses are registered and a third one sends REGISTER
C6_Witness ==
    /\ Cardinality(Keys(active_peers)) = peer_limit
    /\ \E m \in Registrations :
          m.from \notin Keys(active_peers) /\ Handled(m).response.status = "403"

(* C7: after a seeder S registered with files {F1, F2} sends UPDATE_FILES
   naming only F1 the tracker answers 200, GET_PEERS F2 returns 404 and
   GET_PEERS F1 still lists S; after any UPDATE_FILES from a registered seeder
   S the repository lists S for exactly the filenames in the payload. *)
C7_UpdateFilesReplacesFileSet ==
    \A m \in UpdateFilesDatagrams :
        (SeedsExactly(active_peers, m.from, {"f1", "f2"}) /\ AllWellFormed(active_peers))
        => LET r == Handled(m) IN
           /\ r.response.status = "200"
           /\ \A fn \in Filenames :
                 m.from \in PeersFor(r.ap, r.fr, fn) <=> fn \in NamesIn(m.json.files)
           /\ (PeersFor(r.ap, r.fr, "f2") = {} /\ NamesIn(m.json.files) = {"f1"})
              => get_peers_for_file(r.ap, r.fr, "f2").response.status = "404"

(* C8: UPDATE_FILES is idempotent: in every reachable state, processing the
   same UPDATE_FILES datagram a second time right after the first leaves
   active_peers and file_repository as the first left them, and both are
   answered with the same status. *)
C8_UpdateFilesIdempotent ==
    \A m \in UpdateFilesDatagrams :
        LET once == Handled(m)
            twice == process_peer_requests(once.ap, once.fr, m, now)
        IN /\ twice.ap = once.ap
           /\ twice.fr = once.fr
           /\ twice.response.status = once.response.status

\* a registered seeder of f1 and f2 sends UPDATE_FILES naming only f1
C8_Witness ==
    /\ SeedsExactly(active_peers, "p1", {"f1", "f2"})
    /\ \E m \in UpdateFilesDatagrams :
          /\ m.from = "p1" /\ NamesIn(m.json.files) = {"f1"}
          /\ Handled(m).response.status = "400"

\* REGISTER m, then DISCONNECT and REGISTER m again from the same address, starting in (ap, fr)
RoundTrip(ap, fr, m, t) ==
    LET s1 == process_peer_requests(ap, fr, m, t)
        s2 == process_peer_requests(s1.ap, s1.fr, DisconnectDatagram(m.from), t)
    IN process_peer_requests(s2.ap, s2.fr, m, t)

\* exactly one record for the sender of m and, for a seeder, one entry under each advertised filename
ExactlyOne(ap, fr, m) ==
    /\ Cardinality({i \in DOMAIN ap : ap[i].addr = m.from}) = 1
    /\ m.tokens[2] = "seeder"
       => \A fn \in NamesIn(m.json.files) : EntryCount(fr, fn, m.from) = 1

(* C9 as claimed: in every reachable state, for every address and every role
   and file set, REGISTER, DISCONNECT, REGISTER from the address leaves
   exactly one active_peers record for it and, for a seeder, exactly one
   file_repository entry for it under each advertised filename. *)
C9_RoundTripAlways ==
    \A m \in WellFormedRegistrations :
        LET s == RoundTrip(active_peers, file_repository, m, now)
        IN ExactlyOne(s.ap, s.fr, m)

(* C9 as amended: the same, for the round trips whose first REGISTER is
   accepted with 201. *)
C9_RoundTripWhenAccepted ==
    \A m \in WellFormedRegistrations :
        Handled(m).response.status = "201"
        => LET s == RoundTrip(active_peers, file_repository, m, now)
           IN ExactlyOne(s.ap, s.fr, m)

(* a seeder that has a record, and an entry under f1 left by an earlier
   registration, makes the round trip and ends with one record and one entry *)
C9_Witness ==
    \E m \in WellFormedRegistrations :
        /\ m.tokens[2] = "seeder" /\ "f1" \in NamesIn(m.json.files)
        /\ m.from \in Keys(active_peers)
        /\ EntryCount(file_repository, "f1", m.from) >= 1
        /\ Handled(m).response.status = "201"
        /\ EntryCount(Handled(m).fr, "f1", m.from) = 2
        /\ LET s == RoundTrip(active_peers, file_repository, m, now)
           IN ExactlyOne(s.ap, s.fr, m)

(* C10: two consecutive KEEP_ALIVE requests from a registered address are both
   answered 200, neither changes the keys of active_peers, and only that
   peer's last_activity changes; a KEEP_ALIVE from an unregistered address is
   answered 403 and creates no record. *)
C10_KeepAlive ==
    \A p \in Peers :
        LET m == KeepAliveDatagram(p)
            first == Handled(m)
            second == process_peer_requests(first.ap, first.fr, m, now)
        IN IF p \in Keys(active_peers)
           THEN /\ first.response.status = "200" /\ second.response.status = "200"
                /\ KeyList(first.ap) = KeyList(active_peers)
                /\ KeyList(second.ap) = KeyList(active_peers)
                /\ \A i \in DOMAIN active_peers :
                      /\ first.ap[i] = IF active_peers[i].addr = p
                                       THEN [active_peers[i] EXCEPT !.last_activity = now]
                                       ELSE active_peers[i]
                      /\ second.ap[i] = first.ap[i]
                /\ first.fr = file_repository /\ second.fr = file_repository
           ELSE /\ first.response.status = "403"
                /\ first.ap = active_peers
                /\ first.fr = file_repository

(* a peer was kept alive after an older peer's last activity, and a third
   address that has no record sends KEEP_ALIVE too *)
C10_Witness ==
    /\ Len(active_peers) = 2
    /\ active_peers[1].last_activity < active_peers[2].last_activity
    /\ active_peers[1].last_activity < now
    /\ Handled(KeepAliveDatagram(active_peers[1].addr)).response.status = "200"
    /\ \E p \in Peers \ Keys(active_peers) :
          Handled(KeepAliveDatagram(p)).response.status = "403"

(* C11: a REGISTER from an address that already has a record rebinds the
   record: afterwards active_peers holds exactly one record for the address,
   with the username, role and file list of this REGISTER, and as many
   records as before - in every state in which the address is registered,
   the states with peer_limit records included. *)
C11_RegisterRebinds ==
    \A m \in Registrations :
        m.from \in Keys(active_peers)
        => LET r == Handled(m) IN
           /\ Cardinality({i \in DOMAIN r.ap : r.ap[i].addr = m.from}) = 1
           /\ Get(r.ap, m.from).username = m.tokens[3]
           /\ Get(r.ap, m.from).type = m.tokens[2]
           /\ Get(r.ap, m.from).files
                 = (IF m.tokens[2] = "seeder" THEN m.json.files ELSE <<>>)
           /\ Len(r.ap) = Len(active_peers)

(* C12: GET_PEERS <filename> is answered 404 exactly when the filename is no
   key of file_repository; otherwise it is answered 200 with 'seeders' the
   peer addresses of all entries under the filename in insertion order and
   'size' and 'checksum' those of the first entry, whatever the other entries
   say. *)
C12_GetPeers ==
    \A m \in GetPeersDatagrams :
        Len(m.tokens) = 2
        => LET fn == m.tokens[2]
               r == Handled(m).response
           IN /\ r.status = "404" <=> fn \notin DOMAIN file_repository
              /\ fn \in DOMAIN file_repository
                 => /\ r.status = "200"
                    /\ r.body.seeders = [i \in DOMAIN file_repository[fn] |->
                                             file_repository[fn][i].peer_address]
                    /\ r.body.size = file_repository[fn][1].size
                    /\ r.body.checksum = file_repository[fn][1].checksum

\* f1 has two seeders that registered it under different sizes and checksums; f2 has none
C12_Witness ==
    /\ "f1" \in DOMAIN file_repository
    /\ "f2" \notin DOMAIN file_repository
    /\ Len(file_repository["f1"]) = 2
    /\ file_repository["f1"][1].peer_address # file_repository["f1"][2].peer_address
    /\ file_repository["f1"][1].size # file_repository["f1"][2].size
    /\ file_repository["f1"][1].checksum # file_repository["f1"][2].checksum

-----------------------------------------------------------------------------
(* Vocabulary of the chunk store properties *)

RECURSIVE SumSizes(_)
SumSizes(chunks) ==
    IF chunks = <<>> THEN 0
    ELSE chunks[1].size + SumSizes(Tail(chunks))

\* the bytes of `content` that belong to chunk id (zero-based) of the chunk table
ChunkOf(content, chunks, id) ==
    LET offset == SumSizes(SubSeq(chunks, 1, id))
    IN SubSeq(content, offset + 1, offset + chunks[id + 1].size)

RECURSIVE Concat(_)
Concat(pieces) ==
    IF pieces = <<>> THEN <<>> ELSE pieces[1] \o Concat(Tail(pieces))

\* the store holds metadata for fn and the file has not changed since it was generated
Fresh(fn) ==
    /\ fn \in DOMAIN file_chunks
    /\ fn \in DOMAIN disk
    /\ file_chunks[fn] = generate_file_metadata(disk[fn], chunk_size)

\* size is the sum of the chunk sizes, ids are 0, 1, 2, ..., every chunk but
\* the last has c bytes and the last has 1..c bytes
MetadataShape(m, c) ==
    LET n == Len(m.chunks) IN
    /\ m.size = SumSizes(m.chunks)
    /\ \A i \in 1..n : m.chunks[i].id = i - 1
    /\ \A i \in 1..(n - 1) : m.chunks[i].size = c
    /\ n > 0 => m.chunks[n].size \in 1..c

(* C18: for every file length and chunk size, the metadata that
   generate_file_metadata produces has size equal to the length of the file
   and to the sum of the chunk sizes, chunk ids 0, 1, 2, ... in order, chunk
   size c for every chunk but the last and 1..c for the last; the metadata
   the scan keeps in file_chunks has that shape too. *)
C18_MetadataShape ==
    /\ \A fn \in DOMAIN disk :
          LET m == generate_file_metadata(disk[fn], chunk_size) IN
          /\ m.size = Len(disk[fn])
          /\ MetadataShape(m, chunk_size)
    /\ \A fn \in DOMAIN file_chunks : MetadataShape(file_chunks[fn], chunk_size)

\* the scan has stored a file of 1.5 * chunk_size as chunks of chunk_size and chunk_size / 2
C18_Witness ==
    /\ chunk_size = 2
    /\ Fresh("f1")
    /\ Len(disk["f1"]) = 3
    /\ [i \in DOMAIN file_chunks["f1"].chunks |-> file_chunks["f1"].chunks[i].size]
           = <<2, 1>>

(* C19: for a file whose content has not changed since its metadata was
   generated, get_chunk(filename, id) returns for every id in 0..N-1 exactly
   the chunks[id].size bytes at the offset that is the sum of the sizes of
   the chunks before id, so that the chunks of ids 0..N-1 one after the other
   are the file and hash to its whole-file digest. *)
C19_GetChunkReadsPrefixSumOffset ==
    \A fn \in Filenames :
        Fresh(fn)
        => LET chunks == file_chunks[fn].chunks
               got(id) == get_chunk(file_chunks, disk, fn, id)
               pieces == [i \in DOMAIN chunks |-> got(i - 1).data]
           IN /\ \A id \in 0..(Len(chunks) - 1) :
                    got(id) = ChunkBytes(ChunkOf(disk[fn], chunks, id))
              /\ Concat(pieces) = disk[fn]
              /\ Digest(Concat(pieces)) = file_chunks[fn].checksum

(* the peer server has just served chunk 1 of a file of three bytes stored as
   chunks of two bytes and one byte: the byte at offset 2 *)
C19_Witness ==
    /\ Fresh("f1")
    /\ chunk_size = 2
    /\ Len(disk["f1"]) = 3
    /\ disk["f1"][3] # disk["f1"][2]
    /\ served.request = RequestChunk("f1", 1)
    /\ served.response = SentBytes(<<disk["f1"][3]>>)

(* C20: for every filename and every integer chunk_id of a REQUEST_CHUNK the
   peer server sends either exactly the chunks[id].size bytes of chunk id,
   when the filename is in the chunk store and 0 <= chunk_id < N, or the
   literal CHUNK_NOT_FOUND, for an unknown filename and for every chunk_id
   outside 0..N-1, the negative ones included.  Stated for a store whose
   files have not changed since their metadata was generated. *)
C20_RequestChunkResponse ==
    \A request \in TcpRequests :
        (/\ request.type = "REQUEST_CHUNK"
         /\ \A fn \in DOMAIN file_chunks : Fresh(fn))
        => LET fn == request.filename
               id == request.chunk_id
               response == handle_tcp_request(file_chunks, disk, request)
           IN IF fn \in DOMAIN file_chunks
                 /\ 0 <= id /\ id < Len(file_chunks[fn].chunks)
              THEN response = SentBytes(ChunkOf(disk[fn], file_chunks[fn].chunks, id))
              ELSE response = SentText("CHUNK_NOT_FOUND")

-----------------------------------------------------------------------------
(* Vocabulary of the download properties *)

\* the seeders list of the tracker's answer to GET_PEERS f1
ListedSeeders == query_tracker_for_peers(active_peers, file_repository, "f1", now).seeders

\* download_file has returned after "Download complete"
ReportedSuccess == pc = "returned" /\ outcome.result = "complete"

\* the number of chunks in the metadata obtained from the seeder
TotalChunks == Len(seeder_metadata.chunks)

(* C13: whenever download_file reports success, the bytes of the output file
   hash to the whole-file digest of the metadata obtained from the seeder; a
   download in which a seeder delivered corrupted bytes does not end in
   success, whether or not the downloader has the filename in its own chunk
   store. *)
C13_SuccessMeansVerified ==
    ReportedSuccess
    => /\ output_file.exists
       /\ Digest(output_file.data) = seeder_metadata.checksum

\* the two workers are running, a chunk has been completed and S1 still answers
C14_ChunkCompleted ==
    /\ pc = "workers"
    /\ seeders = <<S1, S2>>
    /\ peer_server[S1.host] = "ok"
    /\ peer_server[S2.host] = "ok"
    /\ downloaded_chunks # <<>>

C14_ReturnedWithAllChunks ==
    /\ ReportedSuccess
    /\ DOMAIN downloaded_chunks = 0..(TotalChunks - 1)

\* S1 answers, but not as an honest seeder does
C14_S1Misbehaves == peer_server[S1.host] \in {"corrupt", "cut", "stall"}

(* C14: in a download from S1 and S2 in which S2 answers every request and
   S1, from the moment some chunk has been completed, either goes on
   answering or stops responding altogether, download_file eventually
   returns with all N chunks, under every interleaving of the steps of the
   two workers. *)
C14_DownloadCompletes ==
    C14_ChunkCompleted ~> (C14_ReturnedWithAllChunks \/ C14_S1Misbehaves)

(* C15: a chunk id is recorded in downloaded_chunks only with as many bytes
   as the metadata advertises for it: a response cut short is never stored
   as a completed chunk. *)
C15_OnlyWholeChunks ==
    \A chunk_id \in DOMAIN downloaded_chunks :
        downloaded_chunks[chunk_id] \in DOMAIN temp_dir
        => Len(temp_dir[downloaded_chunks[chunk_id]])
              = seeder_metadata.chunks[chunk_id + 1].size

(* C16: when the tracker lists for the file only the address under which it
   registered the requesting peer, download_file aborts with the no-seeders
   outcome, makes no connection to a peer server and creates no output
   file. *)
C16_OnlySelfAborts ==
    (ListedSeeders = <<Address(Downloader)>> /\ pc # "start")
    => /\ ReportedSuccess = FALSE
       /\ pc = "returned"
       /\ outcome.result \in {"no_seeders", "only_self"}
       /\ contacted = {}
       /\ ~output_file.exists

\* the metadata of an empty file
C17_EmptyFileMetadata == [size |-> 0, checksum |-> Digest(<<>>), chunks |-> <<>>]

\* the download of the empty file f1 has obtained the metadata from a seeder
C17_Obtained == disk["f1"] = <<>> /\ pc = "workers"

C17_Succeeded ==
    /\ ReportedSuccess
    /\ output_file = [exists |-> TRUE, data |-> <<>>]

C17_NoChunkRequest ==
    /\ generate_file_metadata(<<>>, chunk_size) = C17_EmptyFileMetadata
    /\ disk["f1"] = <<>>
       => /\ file_chunks["f1"] = C17_EmptyFileMetadata
          /\ \A made \in contacted : made.what # "chunk"
          /\ pc = "workers" => seeder_metadata = C17_EmptyFileMetadata
          /\ (pc = "returned" /\ outcome.result \notin
                  {"no_response", "no_seeders", "only_self", "no_metadata"})
             => C17_Succeeded

(* C17: for an empty file generate_file_metadata gives size 0, no chunks and
   the digest of the empty string; once a seeder has delivered this metadata
   the download makes no chunk request, and it ends in success with an
   output file of zero bytes. *)
C17_EmptyFileDownload ==
    /\ []C17_NoChunkRequest
    /\ C17_Obtained ~> C17_Succeeded

\* the empty file has been downloaded from p1 after one metadata request
C17_Witness ==
    /\ disk["f1"] = <<>>
    /\ seeders = <<S1>>
    /\ contacted = {Contact(S1.host, "metadata")}
    /\ C17_Succeeded

-----------------------------------------------------------------------------
(* Further properties of the tracker *)

\* active_peers with the username of the record of address a replaced
Renamed(ap, a, new_username) ==
    [i \in DOMAIN ap |-> IF ap[i].addr = a
                         THEN [ap[i] EXCEPT !.username = new_username]
                         ELSE ap[i]]

(* C21: a CHANGE_USERNAME old new addr request from a registered peer is
   answered with USERNAME_CHANGED and changes the username field of that
   peer's record and nothing else (type, files and file_repository stay),
   and the client takes the new username once it has that answer. *)
C21_ChangeUsername ==
    \A m \in ChangeUsernameDatagrams :
        (m.from \in Keys(active_peers) /\ Get(active_peers, m.from).username = m.tokens[2])
        => LET r == Handled(m) IN
           /\ r.response.status = "USERNAME_CHANGED"
           /\ r.ap = Renamed(active_peers, m.from, m.tokens[3])
           /\ r.fr = file_repository
           /\ change_username(m.tokens[2], m.tokens[3], r.response) = m.tokens[3]

\* every datagram the tracker receives
AllDatagrams ==
    RegisterDatagrams \cup UpdateFilesDatagrams \cup GetPeersDatagrams
    \cup ListActiveDatagrams \cup ListFilesDatagrams \cup PingDatagrams
    \cup ChangeUsernameDatagrams \cup BadDatagrams
    \cup {DisconnectDatagram(p) : p \in Peers}
    \cup {KeepAliveDatagram(p) : p \in Peers}

(* C24: a tracker request that is not answered with a 2xx status leaves
   active_peers and file_repository exactly as they were, and no request
   leaves a record that it created without the repository entries of the
   files the record advertises, or entries of an address without a record. *)
C24_ErrorsChangeNothing ==
    \A m \in AllDatagrams :
        LET r == Handled(m) IN
        /\ r.response.status \notin {"200", "201"}
           => (r.ap = active_peers /\ r.fr = file_repository)
        /\ m.from \in Keys(r.ap) \ Keys(active_peers)
           => \A fn \in Advertised(Get(r.ap, m.from)) :
                 fn \in DOMAIN r.fr /\ m.from \in EntryPeers(r.fr, fn)
        /\ (m.from \notin Keys(active_peers) /\ NoEntryOf(file_repository, m.from))
           => (m.from \in Keys(r.ap) \/ NoEntryOf(r.fr, m.from))

-----------------------------------------------------------------------------
(* Further properties of the sweeper *)

\* the repository entries of peer p under filename fn, in list order
EntriesOf(fr, fn, p) ==
    IF fn \in DOMAIN fr
    THEN SelectSeq(fr[fn], LAMBDA e : e.peer_address = p)
    ELSE <<>>

\* every filename a repository entry or a datagram of the model can carry
RepositoryNames(fr1, fr2) == DOMAIN fr1 \cup DOMAIN fr2

(* C26: a pass of the sweeper removes a peer only if
   now - last_activity > peer_timeout, and it changes neither the record nor
   any file_repository entry of a peer it does not remove. *)
C26_SweepSparesOthers ==
    sweeper_running
    => LET r == remove_inactive_peers(active_peers, file_repository, now) IN
       /\ \A p \in Keys(active_peers) \ Keys(r.ap) :
             Expired(Get(active_peers, p), now)
       /\ \A p \in Keys(r.ap) :
             /\ p \in Keys(active_peers)
             /\ Get(r.ap, p) = Get(active_peers, p)
             /\ \A fn \in RepositoryNames(file_repository, r.fr) :
                   EntriesOf(r.fr, fn, p) = EntriesOf(file_repository, fn, p)

\* the part of C26 about the peers whose last_activity is not yet too old
SweepSparesUnexpired ==
    sweeper_running
    => LET r == remove_inactive_peers(active_peers, file_repository, now) IN
       \A p \in Keys(active_peers) :
           ~Expired(Get(active_peers, p), now)
           => /\ p \in Keys(r.ap)
              /\ Get(r.ap, p) = Get(active_peers, p)
              /\ \A fn \in RepositoryNames(file_repository, r.fr) :
                    EntriesOf(r.fr, fn, p) = EntriesOf(file_repository, fn, p)

-----------------------------------------------------------------------------
(* The tracker, one statement group at a time.  start() hands every datagram
   to a thread of its own (tracker.py:98) and the cleanup thread runs beside
   them (tracker.py:426).  A thread that reaches a "with self.lock:" block
   waits for the lock, runs the block in several steps and leaves it, by its
   end or by an exception; both release the lock.  serial is what the whole
   handlers of the atomic model make of the same requests, taken in the
   order in which the threads got the lock. *)

\* the datagrams the threads of this specification are started with
ThreadDatagrams ==
    {Datagram("p1", <<"REGISTER", "seeder", "u1">>, JsonFiles(<<F1a, F2a>>)),
     Datagram("p1", <<"REGISTER", "seeder", "u1">>, JsonFiles(<<F1a, NoName>>)),
     Datagram("p2", <<"REGISTER", "seeder", "u1">>, JsonFiles(<<Scalar>>)),
     Datagram("p3", <<"REGISTER", "leecher", "u1">>, NoJson),
     Datagram("p3", <<"REGISTER", "seeder", "u1">>, BadJson),
     Datagram("p3", <<"GET_PEERS", "f1">>, NoJson),
     DisconnectDatagram("p1"), KeepAliveDatagram("p1")}

\* the request reaches a "with self.lock:" block (tracker.py:108-189, 232-245)
TakesLock(m) ==
    IF m.tokens = <<>> THEN FALSE
    ELSE LET request_type == m.tokens[1] IN
         IF request_type = "REGISTER"
         THEN /\ ReqLen(m) >= 3
              /\ m.tokens[2] \in {"seeder", "leecher"}
              /\ m.tokens[2] = "seeder"
                 => (ReqLen(m) >= 4 /\ m.json.kind = "object" /\ m.json.has_files)
         ELSE IF request_type = "GET_PEERS" THEN ReqLen(m) >= 2
         ELSE request_type \in {"LIST_ACTIVE", "LIST_FILES", "DISCONNECT", "KEEP_ALIVE"}

\* a lock that lets everyone in
CanAcquire_Unlocked(l) == TRUE

\* Lock.acquire, entered by "with self.lock:"
CanAcquire(l) == l = "free"

At(t, label) == threads[t].pc = label

Goto(t, label) == threads' = [threads EXCEPT ![t].pc = label]

\* tracker.py:98, request_thread.start()
Spawn(t, m) ==
    /\ At(t, "idle")
    /\ threads' = [threads EXCEPT ![t] = [IdleThread EXCEPT !.pc = "start", !.m = m]]
    /\ UNCHANGED <<tracker_lock, serial>>
    /\ UNCHANGED tracker_vars
    /\ UNCHANGED store_vars
    /\ UNCHANGED download_vars
    /\ UNCHANGED session_vars
    /\ UNCHANGED alive_vars

\* a request that is answered without the lock: it touches neither table
Skip(t) ==
    /\ At(t, "start")
    /\ ~TakesLock(threads[t].m)
    /\ threads' = [threads EXCEPT ![t] = IdleThread]
    /\ UNCHANGED <<tracker_lock, serial>>
    /\ UNCHANGED tracker_vars
    /\ UNCHANGED store_vars
    /\ UNCHANGED download_vars
    /\ UNCHANGED session_vars
    /\ UNCHANGED alive_vars

(* "with self.lock:" and the statements up to the first loop:
   register_peer tracker.py:201-210, remove_peer 324-328, keep_peer_alive
   396-401, get_peers_for_file 254-268, list_* 279-292 and 308-313. *)
Enter(t) ==
    LET m == threads[t].m
        whole == process_peer_requests(serial.ap, serial.fr, m, now)
    IN
    /\ At(t, "start")
    /\ TakesLock(m)
    /\ CanAcquire(tracker_lock)
    /\ \A fn \in DOMAIN whole.fr : Len(whole.fr[fn]) <= peer_limit
    /\ tracker_lock' = t
    /\ serial' = [ap |-> whole.ap, fr |-> whole.fr]
    /\ IF m.tokens[1] = "REGISTER"
       THEN LET files == IF m.tokens[2] = "seeder" THEN m.json.files ELSE <<>> IN
            IF HasRoom(active_peers)
            THEN /\ active_peers' =
                       DictSet(active_peers,
                               PeerRecord(m.from, m.tokens[2], files, m.tokens[3], now))
                 /\ threads' = [threads EXCEPT
                        ![t].pc = IF files # <<>> THEN "files" ELSE "exit",
                        ![t].files = files, ![t].i = 1]
            ELSE /\ Goto(t, "exit")
                 /\ UNCHANGED active_peers
       ELSE IF m.tokens[1] = "DISCONNECT"
       THEN /\ UNCHANGED active_peers
            /\ IF m.from \in Keys(active_peers)
               THEN LET peer_info == Get(active_peers, m.from) IN
                    threads' = [threads EXCEPT
                        ![t].pc = IF peer_info.type = "seeder" /\ peer_info.files # <<>>
                                  THEN "drop" ELSE "del",
                        ![t].files = peer_info.files, ![t].i = 1]
               ELSE Goto(t, "exit")
       ELSE IF m.tokens[1] = "KEEP_ALIVE"
       THEN /\ active_peers' = keep_peer_alive(active_peers, file_repository, m.from, now).ap
            /\ Goto(t, "exit")
       ELSE /\ UNCHANGED active_peers
            /\ Goto(t, "exit")
    /\ UNCHANGED <<file_repository, now, sweeper_running>>
    /\ UNCHANGED store_vars
    /\ UNCHANGED download_vars
    /\ UNCHANGED session_vars
    /\ UNCHANGED alive_vars

\* register_peer, one turn of the loop at tracker.py:212-224
FileStep(t) ==
    LET th == threads[t]
        r == AddFiles(file_repository, <<th.files[th.i]>>, 1, th.m.from, "500")
    IN
    /\ At(t, "files")
    /\ IF r.raised
       THEN /\ Goto(t, "raise")
            /\ UNCHANGED file_repository
       ELSE /\ file_repository' = r.fr
            /\ threads' = [threads EXCEPT
                   ![t].pc = IF th.i = Len(th.files) THEN "exit" ELSE "files",
                   ![t].i = th.i + 1]
    /\ UNCHANGED <<active_peers, now, sweeper_running, tracker_lock, serial>>
    /\ UNCHANGED store_vars
    /\ UNCHANGED download_vars
    /\ UNCHANGED session_vars
    /\ UNCHANGED alive_vars

\* remove_peer, one turn of the loop at tracker.py:330-340
DropStep(t) ==
    LET th == threads[t]
        r == RemoveFiles(file_repository, <<th.files[th.i]>>, 1, th.m.from)
    IN
    /\ At(t, "drop")
    /\ IF r.raised
       THEN /\ Goto(t, "raise")
            /\ UNCHANGED file_repository
       ELSE /\ file_repository' = r.fr
            /\ threads' = [threads EXCEPT
                   ![t].pc = IF th.i = Len(th.files) THEN "del" ELSE "drop",
                   ![t].i = th.i + 1]
    /\ UNCHANGED <<active_peers, now, sweeper_running, tracker_lock, serial>>
    /\ UNCHANGED store_vars
    /\ UNCHANGED download_vars
    /\ UNCHANGED session_vars
    /\ UNCHANGED alive_vars

\* remove_peer, tracker.py:343
DelStep(t) ==
    /\ At(t, "del")
    /\ active_peers' = DictDel(active_peers, threads[t].m.from)
    /\ Goto(t, "exit")
    /\ UNCHANGED <<file_repository, now, sweeper_running, tracker_lock, serial>>
    /\ UNCHANGED store_vars
    /\ UNCHANGED download_vars
    /\ UNCHANGED session_vars
    /\ UNCHANGED alive_vars

(* remove_inactive_peers, tracker.py:358-360: the lock, current_time and
   list(self.active_peers.keys()) *)
SweepEnter ==
    LET whole == remove_inactive_peers(serial.ap, serial.fr, now) IN
    /\ At(Sweeper, "idle")
    /\ sweeper_running
    /\ CanAcquire(tracker_lock)
    /\ tracker_lock' = Sweeper
    /\ serial' = [ap |-> whole.ap, fr |-> whole.fr]
    /\ threads' = [threads EXCEPT
           ![Sweeper].pc = IF active_peers = <<>> THEN "exit" ELSE "sweep",
           ![Sweeper].t = now, ![Sweeper].keys = KeyList(active_peers), ![Sweeper].i = 1]
    /\ UNCHANGED tracker_vars
    /\ UNCHANGED store_vars
    /\ UNCHANGED download_vars
    /\ UNCHANGED session_vars
    /\ UNCHANGED alive_vars

\* remove_inactive_peers, one turn of the loop at tracker.py:360-383
SweepStep ==
    LET th == threads[Sweeper]
        peer == th.keys[th.i]
    IN
    /\ At(Sweeper, "sweep")
    /\ IF peer \notin Keys(active_peers)
       THEN /\ Goto(Sweeper, "raise")
            /\ UNCHANGED <<active_peers, file_repository>>
       ELSE LET r == SweepFrom(active_peers, file_repository, <<peer>>, 1, th.t) IN
            /\ active_peers' = r.ap
            /\ file_repository' = r.fr
            /\ threads' = [threads EXCEPT
                   ![Sweeper].pc = IF r.raised THEN "raise"
                                   ELSE IF th.i = Len(th.keys) THEN "exit" ELSE "sweep",
                   ![Sweeper].i = th.i + 1]
    /\ UNCHANGED <<now, sweeper_running, tracker_lock, serial>>
    /\ UNCHANGED store_vars
    /\ UNCHANGED download_vars
    /\ UNCHANGED session_vars
    /\ UNCHANGED alive_vars

(* The end of the with block, reached by its last statement or by an
   exception: Lock.__exit__ releases the lock.  A request thread ends; the
   cleanup thread sleeps again, or ends when the exception left its loop. *)
Leave(t) ==
    /\ threads[t].pc \in {"exit", "raise"}
    /\ tracker_lock' = IF tracker_lock = t THEN "free" ELSE tracker_lock
    /\ threads' = [threads EXCEPT ![t] = IdleThread]
    /\ sweeper_running' = IF t = Sweeper /\ At(t, "raise") THEN FALSE ELSE sweeper_running
    /\ UNCHANGED <<active_peers, file_repository, now, serial>>
    /\ UNCHANGED store_vars
    /\ UNCHANGED download_vars
    /\ UNCHANGED session_vars
    /\ UNCHANGED alive_vars

Spawns == \E t \in ThreadIds : \E m \in ThreadDatagrams : Spawn(t, m)
Skips == \E t \in ThreadIds : Skip(t)
Enters == \E t \in ThreadIds : Enter(t)
FileSteps == \E t \in ThreadIds : FileStep(t)
DropSteps == \E t \in ThreadIds : DropStep(t)
DelSteps == \E t \in ThreadIds : DelStep(t)
Leaves == \E t \in AllThreads : Leave(t)

ThreadNext ==
    \/ Spawns
    \/ Skips
    \/ Enters
    \/ FileSteps
    \/ DropSteps
    \/ DelSteps
    \/ SweepEnter
    \/ SweepStep
    \/ Leaves
    \/ Tick

ThreadSpec == Init /\ [][ThreadNext]_vars

\* the positions inside a with block
InLock == {"files", "drop", "del", "sweep", "exit", "raise"}

(* C25: the threads read and write active_peers and file_repository only
   while they hold the one tracker lock; a thread that has left its handler,
   by its end or by an exception, no longer holds the lock; and whenever no
   thread is inside a handler the two tables are what the requests and
   sweeps processed so far give when they are run whole, one at a time, in
   the order in which they got the lock. *)
C25_Serialised ==
    /\ \A t \in AllThreads : threads[t].pc \in InLock => tracker_lock = t
    /\ \A t \in AllThreads : threads[t].pc \notin InLock => tracker_lock # t
    /\ tracker_lock = "free"
       => (active_peers = serial.ap /\ file_repository = serial.fr)

\* a thread waits for the lock while another thread is in the middle of a loop
C25_Witness ==
    \E t1, t2 \in AllThreads :
        /\ t1 # t2
        /\ tracker_lock = t1
        /\ threads[t1].pc \in {"files", "drop", "sweep"} /\ threads[t1].i > 1
        /\ threads[t2].pc = "start" /\ TakesLock(threads[t2].m)
        /\ threads[t2].m.from = threads[t1].m.from

\* an exception has left a with block and the lock is free again
C25_RaisedAndReleased ==
    /\ tracker_lock = "free"
    /\ ~sweeper_running
    /\ active_peers # <<>>

-----------------------------------------------------------------------------
(* Further properties of download_file *)

\* how often chunk id x stands in the queue
Occurrences(queue, x) == Cardinality({k \in DOMAIN queue : queue[k] = x})

\* the workers that took chunk id x from the queue and have not finished with it
Holders(x) == {i \in DOMAIN worker : worker[i].pc = "request" /\ worker[i].chunk_id = x}

\* the number of places chunk id x is in
Places(x) ==
    Occurrences(chunk_queue, x) + Cardinality(Holders(x))
        + (IF x \in DOMAIN downloaded_chunks THEN 1 ELSE 0)

(* C29: while the workers of a download of N chunks run, every chunk id in
   0..N-1 is in exactly one place: once in the work queue, or in the hands of
   one worker, or in the completed map.  A worker that gives up an id, because
   its seeder is unavailable or the request failed, is back at the head of
   its loop without the id, so the id is then in the queue. *)
C29_ChunkConservation ==
    pc = "workers" => \A x \in 0..(TotalChunks - 1) : Places(x) = 1

\* an id went back to the queue after a later id was completed, and a worker holds a third
C29_Witness ==
    /\ pc = "workers"
    /\ \E s \in DOMAIN seeder_availability : ~seeder_availability[s]
    /\ \E k \in DOMAIN chunk_queue : \E x \in DOMAIN downloaded_chunks : chunk_queue[k] < x
    /\ \E i \in DOMAIN worker : worker[i].pc = "request"

AllWorkersReturned == \A i \in DOMAIN worker : worker[i].pc = "exited"

CompletedMapFull == DOMAIN downloaded_chunks = 0..(TotalChunks - 1)

\* what the end of download_file would make of the completed map as it is now
Verdict ==
    VerifyCompletion(downloaded_chunks, TotalChunks, downloading_files, output_file, "f1",
                     temp_dir)

(* C30: download_file reassembles, and reports completion, only in a step
   taken when every worker has returned and the completed map holds all N
   chunk ids; and on a completed map whose size differs from N its final
   test gives "incomplete", leaves the output file as it was and removes the
   filename from downloading_files. *)
C30_ReassemblyOnlyWhenComplete ==
    /\ [][(output_file' # output_file \/ (pc = "workers" /\ outcome'.result = "complete"))
            => (pc = "workers" /\ AllWorkersReturned /\ CompletedMapFull)]_vars
    /\ [][(pc = "workers" /\ outcome'.result = "incomplete")
            => (output_file' = output_file /\ "f1" \notin downloading_files')]_vars
    /\ [](pc = "workers"
            => IF CompletedMapFull
               THEN Verdict.result = "complete"
               ELSE /\ Verdict.result = "incomplete"
                    /\ Verdict.output_file = output_file
                    /\ "f1" \notin Verdict.downloading_files)

\* the workers are running, the file is marked as downloading and the map is part full
C30_Witness ==
    /\ pc = "workers"
    /\ "f1" \in downloading_files
    /\ downloaded_chunks # <<>>
    /\ ~CompletedMapFull
    /\ \E i \in DOMAIN worker : worker[i].pc = "exited"

\* download_file has reassembled the output file
C30_Reassembled ==
    /\ ReportedSuccess
    /\ output_file.exists
    /\ TotalChunks > 1
    /\ downloading_files = {}

\* the downloader's own chunk store, its sharing set and what it told the tracker
OwnStore == <<own_chunks, sidecar, sharing_files, sent>>

(* C22: during a download only the final step of a download that completed
   and whose user answered y to the re-seed prompt changes the downloader's
   file_chunks, its metadata file, its sharing set, the tracker's
   file_repository or the UPDATE_FILES datagrams sent; so a download that
   completes with another answer has left all of them as they were: it sent
   no UPDATE_FILES and the tracker lists the downloader as before. *)
C22_NoReseedNoChange ==
    /\ [][(OwnStore' # OwnStore \/ file_repository' # file_repository)
            => (pc = "workers" /\ outcome'.result = "complete" /\ outcome'.choice = "y")]_vars
    /\ []((ReportedSuccess /\ outcome.choice # "y")
            => (sent = {} /\ sharing_files = {} /\ sidecar = own_chunks))

\* a download completed, the user declined, and the downloader holds and seeds nothing
C22_Witness ==
    /\ ReportedSuccess
    /\ outcome.choice = "n"
    /\ TotalChunks > 0
    /\ own_chunks = <<>>
    /\ Address(Downloader) \notin {ListedSeeders[i] : i \in DOMAIN ListedSeeders}

\* a download completed, the user accepted, and the downloader holds the file
C22_Reseeded ==
    /\ ReportedSuccess
    /\ outcome.choice = "y"
    /\ "f1" \in DOMAIN own_chunks
    /\ "f1" \in sharing_files
    /\ sent # {}

-----------------------------------------------------------------------------
(* Properties of a session of the downloading client *)

\* the download_file calls that are inside the with block
Running == {c \in Callers : calls[c] = "running"}

\* a call gets past "with self.lock:" in this step
Entering(c) == calls[c] = "waiting" /\ calls'[c] # "waiting"

(* C27: at most one download_file call is in progress at any time; a call
   gets past "with self.lock:", and so to the temp files, the tracker query
   and the workers, only in a step taken while the lock is free and no other
   call is in progress; and the lock is free again whenever no call is in
   progress, whichever return statement ended the last one. *)
C27_OneDownloadAtATime ==
    /\ [](Cardinality(Running) <= 1)
    /\ [](pc = "workers" <=> lock \in Callers)
    /\ [](lock \in Callers => Running = {lock})
    /\ [](Running = {} => lock = "free")
    /\ [][\A c \in Callers :
            Entering(c) => (lock = "free" /\ Running = {} /\ downloading_files = {})]_vars

\* one call is in the middle of its download and the other one waits for the lock
C27_Witness ==
    \E c1, c2 \in Callers :
        /\ calls[c1] = "running"
        /\ calls[c2] = "waiting"
        /\ downloaded_chunks # <<>>
        /\ chunk_queue # <<>>
        /\ "f1" \in downloading_files

\* both calls have returned, the second one after the first
C27_BothReturned ==
    /\ \A c \in Callers : calls[c] = "done"
    /\ lock = "free"
    /\ outcome.result \in {"complete", "kept"}
    /\ output_file.exists

\* the i-th worker gives up its chunk in this step after a request to its seeder
FailedRequest(i) ==
    /\ pc = "workers"
    /\ worker[i].pc = "request"
    /\ worker'[i].pc = "loop"
    /\ Available(seeder_availability, seeders[i])
    /\ worker[i].chunk_id \notin DOMAIN downloaded_chunks'

(* C28: an address of seeder_availability becomes true only when it enters
   the map, or in a step of the recovery task whose PING to it was answered
   PONG; no address leaves the map; a chunk request that fails, and a
   metadata round in which every seeder fails, leave the seeders asked at
   false; and the start of a download leaves every address that is false at
   false. *)
C28_AvailabilityFlips ==
    [][/\ \A s \in DOMAIN seeder_availability : s \in DOMAIN seeder_availability'
       /\ \A s \in DOMAIN seeder_availability' :
             (seeder_availability'[s] /\ s \in DOMAIN seeder_availability
                 /\ ~seeder_availability[s])
             => Recover(s)
       /\ \A s \in (DOMAIN seeder_availability') \ (DOMAIN seeder_availability) :
             \E c \in Callers : Entering(c)
       /\ \A i \in DOMAIN worker :
             FailedRequest(i) => ~seeder_availability'[seeders[i]]
       /\ (outcome'.result = "no_metadata" /\ \E c \in Callers : Entering(c))
             => \A s \in DOMAIN seeder_availability' : ~seeder_availability'[s]
       /\ (\E c \in Callers : Entering(c))
             => \A s \in DOMAIN seeder_availability :
                   ~seeder_availability[s] => ~seeder_availability'[s]]_vars

(* the second download has just started, with the metadata of another seeder,
   and p1, which answers metadata requests but failed a chunk request of the
   first download, is still marked unavailable *)
C28_Witness ==
    \E c1, c2 \in Callers :
        /\ calls[c1] = "done"
        /\ calls[c2] = "running"
        /\ S1 \in DOMAIN seeder_availability
        /\ ~seeder_availability[S1]
        /\ peer_server[S1.host] \in {"corrupt", "cut", "stall"}
        /\ downloaded_chunks = <<>>
        /\ Len(chunk_queue) = TotalChunks
        /\ \A i \in DOMAIN worker : worker[i].pc = "loop"

\* the recovery task has marked p1 available again
C28_Recovered ==
    /\ S1 \in DOMAIN seeder_availability
    /\ seeder_availability[S1]
    /\ Contact(S1.host, "ping") \in contacted
    /\ peer_server[S1.host] # "ok"

\* the filenames under which the tracker lists peer p
TrackerListsFor(p) ==
    {fn \in DOMAIN file_repository : p \in EntryPeers(file_repository, fn)}

\* the tracker lists the downloader for exactly the files of its chunk store
Synced == TrackerListsFor(Downloader) = DOMAIN own_chunks

(* C23: whenever the chunk store of the registered downloader has changed,
   by a re-seed after a download or by the rescan that drops a deleted file,
   its last one included, the tracker's file_repository eventually lists the
   downloader for exactly the filenames of its chunk store. *)
C23_TrackerFollowsStore ==
    (Downloader \in Keys(active_peers) /\ ~Synced) ~> Synced

\* the addresses of the entries of the list fr[fn], in list order
EntryAddresses(fr, fn) == [i \in DOMAIN fr[fn] |-> fr[fn][i].peer_address]

\* no value occurs twice in the sequence s
NoRepeat(s) == \A i, j \in DOMAIN s : s[i] = s[j] => i = j

(* C40: in every reachable tracker state each file_repository list holds at
   most one entry per peer address, and the seeders list of the answer to
   GET_PEERS for any filename names no address twice. *)
C40_OneEntryPerAddress ==
    \A fn \in Filenames :
        /\ fn \in DOMAIN file_repository
           => NoRepeat(EntryAddresses(file_repository, fn))
        /\ NoRepeat(get_peers_for_file(active_peers, file_repository, fn).response.body.seeders)

(* C36: the cleanup thread never ends and no pass of it stops early:
   whatever records are registered, in every reachable state the sweeper is
   running, and the pass it would make now raises nothing and removes every
   peer whose last_activity is older than peer_timeout. *)
C36_SweeperKeepsRunning ==
    /\ sweeper_running
    /\ LET r == remove_inactive_peers(active_peers, file_repository, now) IN
       /\ ~r.raised
       /\ \A p \in Keys(active_peers) :
             Expired(Get(active_peers, p), now) => p \notin Keys(r.ap)

\* the chunk store fc indexes exactly the files of the directory dk, each with the digest of its present content
IndexMatches(fc, dk) ==
    /\ DOMAIN fc = DOMAIN dk
    /\ \A fn \in DOMAIN fc : fc[fn].checksum = Digest(dk[fn])

(* C34: after a pass of the periodic rescan the chunk store indexes exactly
   the files of the shared directory, each with the digest of its present
   content: in every reachable state, the pass made now leaves new files
   present, changed files with regenerated metadata and deleted files
   absent. *)
C34_RescanMatchesDirectory ==
    IndexMatches(check_for_deleted_files(file_chunks, disk), disk)

\* the step of download_file that reassembles the output file
Reassembling == pc = "workers" /\ outcome'.result = "complete"

\* the bytes stored in the part files of chunk ids 0..n-1, in that order
StoredParts(td, n) == [k \in 1..n |-> td[PartPath("f1", k - 1)]]

(* C32: whatever the order in which the workers completed the chunks, the
   step that reassembles writes an output file that is the concatenation of
   the bytes stored in the part files, in ascending chunk-id order 0..N-1,
   and leaves no part file of the download in the temp directory. *)
C32_ReassemblyInOrder ==
    [][Reassembling
         => /\ output_file'.exists
            /\ output_file'.data = Concat(StoredParts(temp_dir, TotalChunks))
            /\ \A path \in DOMAIN temp_dir' : path.filename # "f1"]_vars

\* a file of several chunks was reassembled after a chunk id had gone back to the queue
C32_Witness ==
    /\ ReportedSuccess
    /\ TotalChunks > 1
    /\ temp_dir = <<>>
    /\ Len(output_file.data) = seeder_metadata.size
    /\ \E s \in DOMAIN seeder_availability : ~seeder_availability[s]
    /\ Contact(S1.host, "chunk") \in contacted
    /\ Contact(S2.host, "chunk") \in contacted

\* download_file has ended with the downloaded file added to the chunk store
Reseeded == pc = "returned" /\ outcome.choice = "y"

(* C38: a downloaded file is in the downloader's chunk store, and advertised
   to the tracker, only if its whole-file digest is the digest advertised by
   the source seeder: after a download that ended with a re-seed, the output
   file and the chunk store entry made from it carry the checksum of the
   metadata obtained from the seeder. *)
C38_OnlyVerifiedReseeded ==
    Reseeded
    => /\ Digest(output_file.data) = seeder_metadata.checksum
       /\ own_chunks["f1"].checksum = seeder_metadata.checksum

(* C31: the download_file call eventually returns, with success or with a
   failure outcome, and the peer-wide lock is free again, whatever the peer
   servers of the seeders do: no worker blocks or loops forever, even when
   every seeder has become unavailable while chunk ids are in the queue. *)
C31_DownloadReturns == <>(pc = "returned" /\ lock = "free")

-----------------------------------------------------------------------------
(* The client's traffic with the tracker.  Every request to the tracker
   leaves through the one UDP socket of the client, and its sender then reads
   the next datagram that socket receives (recvfrom, under the timeout that
   register_with_tracker set, client.py:895).  The keep-alive thread, the
   main thread with the user's commands and the file-check thread do this
   side by side; some of them hold Client.lock meanwhile.  The downloader is
   registered, and p1 is registered as a seeder of f1 but sends nothing.  The
   tracker handles a datagram when it is sent and its answer waits in the
   socket.  Running code takes no time: time passes only while every thread
   waits, one keep-alive period at a time, and a recvfrom that has waited for
   a period times out. *)

\* the network loses at most MaxLost datagrams
MaxLost == 1

\* what the user can ask the main thread for: get_available_files,
\* get_active_peer_list, and handle_downloads from its query on
MainOps == {"LIST_FILES", "LIST_ACTIVE", "GET_PEERS"}

OpsOf(t) ==
    CASE t = "keep_alive" -> {"KEEP_ALIVE"}
      [] t = "file_check" -> {"UPDATE_FILES"}
      [] OTHER -> MainOps

(* which operations run under Client.lock: send_keep_alive (client.py:1124),
   get_active_peer_list (977), get_available_files (1025),
   check_for_deleted_files (108) and download_file (207) do;
   query_tracker_for_peers called from handle_downloads (1100) does not *)
HoldsLock(op) == op # "GET_PEERS"

\* the datagram an operation sends
RequestOf(op, fc) ==
    CASE op = "KEEP_ALIVE" -> KeepAliveDatagram(Downloader)
      [] op = "LIST_FILES" -> Datagram(Downloader, <<"LIST_FILES">>, NoJson)
      [] op = "LIST_ACTIVE" -> Datagram(Downloader, <<"LIST_ACTIVE", "u1">>, NoJson)
      [] op = "UPDATE_FILES" -> UpdateFilesRequest(fc)
      [] OTHER -> Datagram(Downloader, <<"GET_PEERS", "f1">>, NoJson)

\* a handler of the fatal error that logs it and goes on
os_exit_Skipped == "running"

\* os._exit(1), client.py:1139
os_exit == "exited"

\* the process after an exception in the exchange of thread t: only
\* send_keep_alive treats it as fatal, the others print the error
AfterError(t) == IF t = "keep_alive" THEN os_exit ELSE "running"

\* where thread t is after an exception in its exchange
Failed(task, error) ==
    [task EXCEPT !.error = error,
                 !.pc = IF HoldsLock(task.op) THEN "release" ELSE "sleep"]

(* what query_tracker_for_peers makes of the datagram d it read, and what its
   callers make of that (client.py:1069-1073, 1101-1110 and 228-257): a
   response that is JSON with status "200 OK" and a seeders list that is not
   empty once the client's own address is filtered out *)
Usable(d) ==
    /\ d.request.tokens # <<>>
    /\ d.request.tokens[1] = "GET_PEERS"
    /\ d.response.status = "200"
    /\ FilterSelf([i \in DOMAIN d.response.body.seeders |->
                      Address(d.response.body.seeders[i])]) # <<>>

\* thread t waits: for the user, for the lock, for a datagram or for its sleep to end
Waiting(t) ==
    \/ process = "exited"
    \/ tasks[t].pc \in {"idle", "sleep", "prompt", "transfer"}
    \/ tasks[t].pc = "recv" /\ udp_socket.queue = <<>>
    \/ tasks[t].pc = "acquire" /\ ~LockFree(lock)

AliveInit ==
    /\ disk = [fn \in {"f1"} |-> [i \in 1..MaxLen |-> i % 2]]
    /\ chunk_size = MaxChunk
    /\ file_chunks = scan_directory_for_files(<<>>, disk, chunk_size)
    /\ served = NoRequest
    /\ \E role \in SessionRoles :
          /\ own_chunks = IF role = "seeder" THEN file_chunks ELSE <<>>
          /\ active_peers = SessionTracker(role, file_chunks).ap
          /\ file_repository = SessionTracker(role, file_chunks).fr
    /\ now = 0
    /\ sweeper_running = TRUE
    /\ peer_server = [h \in Hosts |-> "ok"]
    /\ pc = "idle"
    /\ outcome = NotEnded
    /\ seeders = <<>>
    /\ seeder_availability = <<>>
    /\ seeder_metadata = EmptyMetadata
    /\ chunk_queue = <<>>
    /\ downloaded_chunks = <<>>
    /\ temp_dir = <<>>
    /\ worker = <<>>
    /\ output_file = NoFile
    /\ contacted = {}
    /\ ThreadsIdle
    /\ lock = "free"
    /\ calls = [c \in Callers |-> "new"]
    /\ downloading_files = {}
    /\ sharing_files = {}
    /\ own_disk = [fn \in DOMAIN own_chunks |-> disk[fn]]
    /\ sidecar = own_chunks
    /\ sent = {}
    /\ tasks = [t \in Tasks |->
                   IF t = "keep_alive"
                   THEN [IdleTask EXCEPT !.pc = "acquire", !.op = "KEEP_ALIVE"]
                   ELSE IdleTask]
    /\ udp_socket = [queue |-> <<>>, dropped |-> 0]
    /\ process = "running"

\* the user gives a command, or the sleep of the file-check thread ends (client.py:107)
Start(t, op) ==
    /\ process = "running"
    /\ t # "keep_alive"
    /\ op \in OpsOf(t)
    /\ tasks[t].pc = "idle"
    /\ op = "UPDATE_FILES" => own_chunks # <<>>
    /\ tasks' = [tasks EXCEPT ![t] =
                    [IdleTask EXCEPT !.op = op,
                                     !.pc = IF HoldsLock(op) THEN "acquire" ELSE "send"]]
    /\ UNCHANGED <<udp_socket, process>>
    /\ UNCHANGED tracker_vars
    /\ UNCHANGED store_vars
    /\ UNCHANGED download_vars
    /\ UNCHANGED thread_vars
    /\ UNCHANGED session_vars

(* self.lock.acquire() and "with self.lock:".  download_file, which finds the
   output file in place or not, first asks the user whether to download again
   (client.py:216-221). *)
Acquire(t) ==
    /\ process = "running"
    /\ tasks[t].pc = "acquire"
    /\ LockFree(lock)
    /\ lock' = t
    /\ \E exists \in BOOLEAN :
          tasks' = [tasks EXCEPT ![t].pc =
                       IF tasks[t].op = "download_file" /\ exists THEN "prompt" ELSE "send"]
    /\ UNCHANGED <<udp_socket, process>>
    /\ UNCHANGED <<calls, downloading_files, sharing_files, own_disk, sidecar, sent>>
    /\ UNCHANGED tracker_vars
    /\ UNCHANGED store_vars
    /\ UNCHANGED download_vars
    /\ UNCHANGED thread_vars

\* the user answers "Do you want to download it again? (y/n)", client.py:218-220
Answer(t) ==
    /\ process = "running"
    /\ tasks[t].pc = "prompt"
    /\ \E choice \in Choices :
          tasks' = [tasks EXCEPT ![t].pc = IF choice = "y" THEN "send" ELSE "release"]
    /\ UNCHANGED <<udp_socket, process>>
    /\ UNCHANGED tracker_vars
    /\ UNCHANGED store_vars
    /\ UNCHANGED download_vars
    /\ UNCHANGED thread_vars
    /\ UNCHANGED session_vars

(* udp_socket.sendto of the request: it raises, or the datagram is lost on
   its way, or the tracker handles it and sends its answer, which then waits
   in the client's socket *)
Send(t) ==
    /\ process = "running"
    /\ tasks[t].pc = "send"
    /\ LET m == RequestOf(tasks[t].op, own_chunks)
           r == process_peer_requests(active_peers, file_repository, m, now)
       IN \E fate \in {"raised", "lost", "delivered"} :
          CASE fate = "raised" ->
                  /\ tasks' = [tasks EXCEPT ![t] = Failed(@, "send")]
                  /\ process' = AfterError(t)
                  /\ UNCHANGED <<udp_socket, active_peers, file_repository>>
            [] fate = "lost" ->
                  /\ udp_socket.dropped < MaxLost
                  /\ udp_socket' = [udp_socket EXCEPT !.dropped = @ + 1]
                  /\ tasks' = [tasks EXCEPT ![t].pc = "recv"]
                  /\ UNCHANGED <<process, active_peers, file_repository>>
            [] OTHER ->
                  /\ active_peers' = r.ap
                  /\ file_repository' = r.fr
                  /\ udp_socket' =
                        IF r.response = NoReply THEN udp_socket
                        ELSE [udp_socket EXCEPT !.queue =
                                 Append(@, [from_task |-> t, request |-> m,
                                            response |-> r.response])]
                  /\ tasks' = [tasks EXCEPT ![t].pc = "recv"]
                  /\ UNCHANGED process
    /\ UNCHANGED <<now, sweeper_running>>
    /\ UNCHANGED store_vars
    /\ UNCHANGED download_vars
    /\ UNCHANGED thread_vars
    /\ UNCHANGED session_vars

(* udp_socket.recvfrom returns the datagram that has waited longest.
   send_keep_alive and the file-check thread do not look at it;
   handle_downloads goes on to download_file when it is usable, and
   download_file goes on to its workers. *)
Recv(t) ==
    /\ process = "running"
    /\ tasks[t].pc = "recv"
    /\ udp_socket.queue # <<>>
    /\ LET d == Head(udp_socket.queue)
           op == tasks[t].op
       IN tasks' = [tasks EXCEPT ![t] =
              CASE op = "GET_PEERS" /\ Usable(d) ->
                      [@ EXCEPT !.got = d, !.op = "download_file", !.pc = "acquire"]
                [] op = "GET_PEERS" /\ ~Usable(d) -> [@ EXCEPT !.got = d, !.pc = "sleep"]
                [] op = "download_file" /\ Usable(d) -> [@ EXCEPT !.got = d, !.pc = "transfer"]
                [] OTHER -> [@ EXCEPT !.got = d, !.pc = "release"]]
    /\ udp_socket' = [udp_socket EXCEPT !.queue = Tail(@)]
    /\ UNCHANGED process
    /\ UNCHANGED tracker_vars
    /\ UNCHANGED store_vars
    /\ UNCHANGED download_vars
    /\ UNCHANGED thread_vars
    /\ UNCHANGED session_vars

\* the workers of download_file have returned and the user has answered its last question
EndTransfer(t) ==
    /\ process = "running"
    /\ tasks[t].pc = "transfer"
    /\ tasks' = [tasks EXCEPT ![t].pc = "release"]
    /\ UNCHANGED <<udp_socket, process>>
    /\ UNCHANGED tracker_vars
    /\ UNCHANGED store_vars
    /\ UNCHANGED download_vars
    /\ UNCHANGED thread_vars
    /\ UNCHANGED session_vars

\* self.lock.release(), or the end of "with self.lock:"; keep_alive then
\* sleeps (client.py:1153), and so does the file-check thread (client.py:107);
\* the main thread goes back to wait for the user's next command
Release(t) ==
    /\ process = "running"
    /\ tasks[t].pc = "release"
    /\ lock' = IF lock = t THEN "free" ELSE lock
    /\ tasks' = [tasks EXCEPT ![t].pc = "sleep"]
    /\ UNCHANGED <<udp_socket, process>>
    /\ UNCHANGED <<calls, downloading_files, sharing_files, own_disk, sidecar, sent>>
    /\ UNCHANGED tracker_vars
    /\ UNCHANGED store_vars
    /\ UNCHANGED download_vars
    /\ UNCHANGED thread_vars

\* the records of ap one period older, for a clock that stays at MaxTime:
\* Expired only asks whether an age is more than peer_timeout
Older(ap) ==
    [i \in DOMAIN ap |->
        [ap[i] EXCEPT !.last_activity = IF @ > 0 THEN @ - 1 ELSE 0]]

(* One keep-alive period passes while every thread waits: the sleep of
   keep_alive ends (time.sleep(2), client.py:1153), a thread that has
   finished an operation is ready for the next one, and every recvfrom that
   is still waiting raises its timeout (client.py:895). *)
Pass ==
    /\ \A t \in Tasks : Waiting(t)
    /\ IF now < MaxTime
       THEN now' = now + 1 /\ UNCHANGED active_peers
       ELSE now' = now /\ active_peers' = Older(active_peers)
    /\ tasks' = [t \in Tasks |->
                    IF process = "exited" THEN tasks[t]
                    ELSE CASE tasks[t].pc = "sleep" ->
                                [tasks[t] EXCEPT !.pc = IF t = "keep_alive"
                                                        THEN "acquire" ELSE "idle"]
                           [] tasks[t].pc = "recv" -> Failed(tasks[t], "timeout")
                           [] OTHER -> tasks[t]]
    /\ process' = IF process = "running" /\ tasks["keep_alive"].pc = "recv"
                  THEN AfterError("keep_alive")
                  ELSE process
    /\ UNCHANGED udp_socket
    /\ UNCHANGED <<file_repository, sweeper_running>>
    /\ UNCHANGED store_vars
    /\ UNCHANGED download_vars
    /\ UNCHANGED thread_vars
    /\ UNCHANGED session_vars

Starts == \E t \in Tasks : \E op \in OpsOf(t) : Start(t, op)
Acquires == \E t \in Tasks : Acquire(t)
Answers == \E t \in Tasks : Answer(t)
Sends == \E t \in Tasks : Send(t)
Recvs == \E t \in Tasks : Recv(t)
EndTransfers == \E t \in Tasks : EndTransfer(t)
Releases == \E t \in Tasks : Release(t)

AliveNext ==
    \/ Starts
    \/ Acquires
    \/ Answers
    \/ Sends
    \/ Recvs
    \/ EndTransfers
    \/ Releases
    \/ Pass
    \/ Sweep

\* the steps of thread t that are code running, or a user who does answer
Proceed(t) == Send(t) \/ Recv(t) \/ Answer(t) \/ EndTransfer(t) \/ Release(t)

(* Every thread that can run does run, a thread that waits for the lock gets
   it when it is free again and again, time passes, and the cleanup thread
   of the tracker makes its passes. *)
AliveFairness ==
    /\ \A t \in Tasks : WF_vars(Proceed(t)) /\ SF_vars(Acquire(t))
    /\ WF_vars(Pass)
    /\ WF_vars(Sweep)

AliveSpec == AliveInit /\ [][AliveNext]_vars /\ AliveFairness

(* C37: every tracker response a thread of the client reads from the shared
   UDP socket is the response to the request that thread sent: under every
   interleaving of the keep-alive thread with the user's commands and the
   file-check thread, no thread holds the answer to another's request. *)
C37_ResponsesMatchRequests ==
    \A t \in Tasks :
        tasks[t].got # NoDatagram => tasks[t].got.from_task = t

\* an exchange of the keep-alive thread has failed: its sendto raised, or its recvfrom timed out
KeepAliveFailed == tasks["keep_alive"].error # "none"

\* a step in which a thread of the client sends a request or enters an operation
Issues ==
    \E t \in Tasks :
        \/ tasks'[t].pc = "recv" /\ tasks[t].pc # "recv"
        \/ tasks'[t].op # tasks[t].op
        \/ tasks'[t].pc = "acquire" /\ tasks[t].pc # "acquire"

(* C33: when a KEEP_ALIVE exchange fails, by a send that raises or by a
   recvfrom that gets no datagram within the timeout, the client process has
   ended; and once it has ended, no thread of it sends a KEEP_ALIVE or any
   other tracker request, starts a download or takes the lock. *)
C33_KeepAliveFailureIsFatal ==
    /\ [](KeepAliveFailed => process = "exited")
    /\ [][process = "exited"
            => /\ ~Issues
               /\ UNCHANGED <<tasks, udp_socket, lock, process>>]_vars

\* the process ended on a keep-alive timeout while the main thread waited for the lock
C33_Witness ==
    /\ process = "exited"
    /\ tasks["keep_alive"].error = "timeout"
    /\ lock = "keep_alive"
    /\ tasks["main"].pc = "acquire"
    /\ Downloader \in Keys(active_peers)

(* C35: while the process of the registered peer runs and no datagram between
   it and the tracker has been lost, the tracker holds the peer's record and
   the record is not older than peer_timeout, so no pass of the sweeper
   removes it: the keep-alive thread sends KEEP_ALIVE often enough in every
   state, download_file holding the lock included. *)
C35_RunningPeerStaysRegistered ==
    (process = "running" /\ udp_socket.dropped = 0)
    => /\ Downloader \in Keys(active_peers)
       /\ ~Expired(Get(active_peers, Downloader), now)

\* the keep-alive thread has read the tracker's 403 to a KEEP_ALIVE of its own
Refused ==
    /\ process = "running"
    /\ Downloader \notin Keys(active_peers)
    /\ tasks["keep_alive"].got.from_task = "keep_alive"
    /\ tasks["keep_alive"].got.response.status = "403"

(* C39: a running peer that the tracker has removed and that has read a 403
   answer to its KEEP_ALIVE eventually is registered at the tracker again or
   has ended; it does not go on sending KEEP_ALIVE while absent from
   active_peers. *)
C39_RefusedPeerRecovers ==
    Refused ~> (Downloader \in Keys(active_peers) \/ process = "exited")

====
